---- MODULE Spec2Model ----
(***************************************************************************)
(* A model of HATSKit's asset-resolution and build pipeline (hatskit.py):  *)
(* the cache-aware release resolver with its rate-limit guard, the content *)
(* hash and changelog of a selection, and the builder run that ties them   *)
(* together.                                                               *)
(*                                                                         *)
(* Conventions.  Python strings are TLA+ strings (TLC evaluates Head, Tail,*)
(* Len and \o on them).  A Python dict is a function whose DOMAIN is the   *)
(* set of its keys, so "k in d" is k \in DOMAIN d.  Python's None, where a *)
(* value is only tested for truth (component.get('tag')), is the empty     *)
(* string: both are falsy in every test the code makes.  The clock counts  *)
(* ticks; one tick stands for one hour, so CACHE_DURATION is 12 ticks.     *)
(***************************************************************************)
EXTENDS Integers, Sequences, FiniteSets, TLC

VARIABLES
    now,          \* the wall clock, datetime.now(timezone.utc) / time.time()
    clear_cache,  \* args.clear_cache, fixed when the process starts
    github_pat,   \* the global github_pat ("" for None)
    cache,        \* the in-memory cache dict handed to get_release_asset_info
    call,         \* the activation of get_release_asset_info, if any
    start,        \* history: the cache and the clock when the current call began
    requests,     \* history: the requests the current call has issued so far
    ncalls,       \* history: how many resolve calls the driver has made
    last,         \* history: the last call that returned to the driver
    user_choices, \* the selection: (id, component) items in iteration order
    last_build,   \* the build record load_last_build returned
    content_hash, \* compute_content_hash(user_choices)
    changes,      \* the changelog lines
    other_choices,\* a second selection, to compare content hashes
    other_hash,   \* its content hash
    stage,        \* where the identity computation or run_builder stands
    cache_file,   \* hatskit_cache.json: <<>> when absent, else <<its content>>
    last_build_file, \* last_build.json, likewise
    files,        \* the output files that exist in the base path
    temp_download,\* temp_downloads: <<>> when absent, else <<its content>>
    temp_build,   \* build: <<>> when absent, else <<its content>>
    all_components, \* the manifest as loaded: (id, component) items in file order
    index,        \* i, the position of the loop under way in run_builder
    timestamp,    \* the date in the output filename
    resolved,     \* history: the resolve calls of the pass and how they ended
    downloaded,   \* history: the ids download_file was called for
    processed,    \* history: the ids process_component was called for
    packed,       \* the entries of the zip the build has written
    failed,       \* history: the ids download_file returned False for
    ended,        \* history: the way run_builder has returned, "" while it runs
    disk,         \* the file system process_component works on
    todo,         \* the components to process, each with its downloaded file
    turn,         \* the component process_component is called for
    pos,          \* the step of that component's loop
    log,          \* history: the steps executed and the error each one logged
    download,     \* the call of download_file under way
    keys          \* two descriptors and the cache keys computed for them

resolverVars == <<now, clear_cache, github_pat, cache, call, start, requests, ncalls, last>>

identityVars == <<user_choices, last_build, content_hash, changes,
                  other_choices, other_hash, stage>>

builderVars == <<cache_file, last_build_file, files, temp_download, temp_build,
                 all_components, index, timestamp, resolved, downloaded, processed,
                 packed, failed, ended>>

stepVars == <<disk, todo, turn, pos, log, download, keys>>

vars == <<resolverVars, identityVars, builderVars, stepVars>>

----------------------------------------------------------------------------
(* Bounds of the model. *)

MaxNow == 13        \* the clock stops at this tick
MaxDepth == 3       \* requests one resolve call may issue in the model
MaxCalls == 2       \* resolve calls the resolver driver makes
MaxSelected == 2    \* components in a selection drawn as an input

(* Program constants. *)

CACHE_DURATION == 12

----------------------------------------------------------------------------
(* Python helpers. *)

\* dict.get(k, default)
Get(d, k, default) == IF k \in DOMAIN d THEN d[k] ELSE default

\* The empty dict.
EmptyDict == [k \in {} |-> {}]

\* Mutant of Put: the assignment is lost.
Put_Lost(d, k, v) == d

\* d[k] = v on a dict.
Put(d, k, v) == [x \in DOMAIN d \cup {k} |-> IF x = k THEN v ELSE d[x]]

\* The value a call returns for Python's None.
None == [none |-> TRUE]

Max(a, b) == IF a >= b THEN a ELSE b

\* fnmatch.fnmatch on a POSIX host (normcase is the identity there), for
\* patterns made of literals, "*" and "?".
RECURSIVE fnmatch(_, _)
fnmatch(name, pat) ==
    IF pat = "" THEN name = ""
    ELSE IF Head(pat) = "*"
         THEN fnmatch(name, Tail(pat)) \/ (name # "" /\ fnmatch(Tail(name), pat))
    ELSE IF name = "" THEN FALSE
    ELSE IF Head(pat) = "?" THEN fnmatch(Tail(name), Tail(pat))
    ELSE Head(name) = Head(pat) /\ fnmatch(Tail(name), Tail(pat))

\* datetime.isoformat() of an aware UTC datetime: the instant and its offset.
isoformat(t) == [instant |-> t, offset |-> "+00:00"]

\* datetime.fromisoformat(s): an aware or naive datetime, or ValueError /
\* TypeError for a string that is no ISO date or a value that is no string.
fromisoformat(s) ==
    IF "instant" \in DOMAIN s
    THEN [ok |-> TRUE, instant |-> s.instant,
          tzinfo |-> IF s.offset = "" THEN "None" ELSE "utc"]
    ELSE [ok |-> FALSE]

----------------------------------------------------------------------------
(* The release API, as far as the resolver looks at its answers. *)

Asset(n, u) == [name |-> n, browser_download_url |-> u]

\* Two matching assets, the first in API order not the least by name.
RelTwo == [tag_name |-> "v1",
           assets |-> <<Asset("b.z", "https://github.com/o/r/v1/b.z"),
                        Asset("a.z", "https://github.com/o/r/v1/a.z")>>]

\* A non-matching asset ahead of the matching one, and no tag_name.
RelLate == [assets |-> <<Asset("r.t", "https://github.com/o/r/v2/r.t"),
                         Asset("a.z", "https://github.com/o/r/v2/a.z")>>]

\* No asset matches.
RelNoMatch == [tag_name |-> "v3",
               assets |-> <<Asset("r.t", "https://github.com/o/r/v3/r.t")>>]

\* A release object without assets.
RelNoAssets == [tag_name |-> "v4"]

Releases == {RelTwo, RelLate, RelNoMatch, RelNoAssets}

ETags == {"e1"}

\* The repository whose answers are explored in full.
Explored == "o/r"

\* The JSON of a 200: a release object on the tag endpoint, a list of
\* releases (newest first, possibly empty) on the releases endpoint.  The
\* other repositories have published RelTwo or RelNoMatch, or nothing.
Bodies(component) ==
    LET published == IF component.repo = Explored THEN Releases
                     ELSE {RelTwo, RelNoMatch}
    IN  IF Get(component, "tag", "") # "" THEN published
        ELSE {<<>>} \cup {<<r>> : r \in published}
                 \cup (IF component.repo = Explored THEN {<<RelLate, RelTwo>>} ELSE {})

\* The headers of a 200: with an ETag or, from the explored repository,
\* also without one.
OkHeaders(component) ==
    {("ETag" :> e) : e \in ETags}
    \cup (IF component.repo = Explored THEN {EmptyDict} ELSE {})

RateHeaders(remaining, reset) ==
    ("x-ratelimit-remaining" :> remaining) @@ ("x-ratelimit-reset" :> reset)

\* What the API may answer to a request: no answer at all (a connection
\* error), 304 to a conditional request, an exhausted quota, another client
\* or server error, or a release.
Responses(request, component, t) ==
    {[exception |-> "ConnectionError"]}
    \cup (IF "If-None-Match" \in DOMAIN request.headers
          THEN {[status |-> 304, headers |-> EmptyDict]} ELSE {})
    \cup {[status |-> 429, headers |-> RateHeaders("0", t + 2)],
          [status |-> 403, headers |-> ("x-ratelimit-remaining" :> "0")],
          [status |-> 403, headers |-> RateHeaders("59", t + 2)],
          [status |-> 429, headers |-> EmptyDict],
          [status |-> 404, headers |-> EmptyDict]}
    \cup {[status |-> 200, headers |-> h, json |-> b] :
              h \in OkHeaders(component), b \in Bodies(component)}

----------------------------------------------------------------------------
(* The resolver: get_release_asset_info and handle_rate_limit. *)

\* cache_key = f"{repo}@{tag or 'latest'}|{asset_pattern}"
CacheKey(component) ==
    component.repo \o "@"
        \o (IF Get(component, "tag", "") # "" THEN component.tag ELSE "latest")
        \o "|" \o component.asset_pattern

\* Mutant of FreshCheck: an entry with a timestamp is returned at any age.
FreshCheck_Always(cache_entry, current_time) ==
    IF "timestamp" \notin DOMAIN cache_entry THEN "KeyError"
    ELSE IF fromisoformat(cache_entry.timestamp).ok THEN "hit" ELSE "miss"

\* Mutant of FreshCheck: the comparison with the cache duration is inverted.
FreshCheck_Inverted(cache_entry, current_time) ==
    IF "timestamp" \notin DOMAIN cache_entry THEN "KeyError"
    ELSE LET parsed == fromisoformat(cache_entry.timestamp)
         IN  IF ~parsed.ok THEN "miss"
             ELSE IF current_time - parsed.instant > CACHE_DURATION
                  THEN "hit" ELSE "miss"

\* The freshness test of a cached entry: "hit" when it is returned,
\* "miss" when the code goes on to the API (expired, or a timestamp that
\* does not parse), "KeyError" when the entry has no timestamp.
FreshCheck(cache_entry, current_time) ==
    IF "timestamp" \notin DOMAIN cache_entry THEN "KeyError"
    ELSE LET parsed == fromisoformat(cache_entry.timestamp)
         IN  IF ~parsed.ok THEN "miss"
             ELSE LET cache_time == [parsed EXCEPT !.tzinfo = "utc"]
                  IN  IF current_time - cache_time.instant < CACHE_DURATION
                      THEN "hit" ELSE "miss"

\* The URL of the request.
ApiUrl(component) ==
    IF Get(component, "tag", "") # ""
    THEN "https://api.github.com/repos/" \o component.repo
             \o "/releases/tags/" \o component.tag
    ELSE "https://api.github.com/repos/" \o component.repo \o "/releases"

\* Mutant of RequestHeaders: the cached ETag is not sent.
RequestHeaders_Unconditional(cache_key, token, c) ==
    ("Accept" :> "application/vnd.github.v3+json")
    @@ (IF token # "" THEN ("Authorization" :> ("token " \o token)) ELSE EmptyDict)

\* The headers of the request.
RequestHeaders(cache_key, token, c) ==
    ("Accept" :> "application/vnd.github.v3+json")
    @@ (IF token # "" THEN ("Authorization" :> ("token " \o token)) ELSE EmptyDict)
    @@ (IF cache_key \in DOMAIN c /\ "etag" \in DOMAIN c[cache_key]
        THEN ("If-None-Match" :> c[cache_key].etag) ELSE EmptyDict)

\* Mutant of Enter: the cache is consulted only when a refresh is forced.
Enter_CacheWhenForced(component, token, c, t) ==
    LET cache_key == CacheKey(component)
        looked == IF clear_cache /\ cache_key \in DOMAIN c
                  THEN FreshCheck(c[cache_key], t) ELSE "miss"
    IN  IF looked = "hit"
        THEN [pc |-> "done", component |-> component, current_time |-> t,
              ret |-> c[cache_key]]
        ELSE [pc |-> "request", component |-> component, current_time |-> t,
              request |-> [url |-> ApiUrl(component),
                           headers |-> RequestHeaders(cache_key, token, c)]]

\* get_release_asset_info up to its request: the activation after the
\* cache has been consulted at time t.
Enter(component, token, c, t) ==
    LET cache_key == CacheKey(component)
        looked == IF ~clear_cache /\ cache_key \in DOMAIN c
                  THEN FreshCheck(c[cache_key], t) ELSE "miss"
    IN  IF looked = "hit"
        THEN [pc |-> "done", component |-> component, current_time |-> t,
              ret |-> c[cache_key]]
        ELSE IF looked = "KeyError"
        THEN [pc |-> "raised", component |-> component, current_time |-> t,
              error |-> "KeyError"]
        ELSE [pc |-> "request", component |-> component, current_time |-> t,
              request |-> [url |-> ApiUrl(component),
                           headers |-> RequestHeaders(cache_key, token, c)]]

\* handle_rate_limit's test.
RateLimited(response) ==
    /\ response.status \in {403, 429}
    /\ "x-ratelimit-remaining" \in DOMAIN response.headers
    /\ response.headers["x-ratelimit-remaining"] = "0"

\* handle_rate_limit's sleep: wait_time + 1.
SleepTime(response, t) ==
    LET reset_time == Get(response.headers, "x-ratelimit-reset", 0)
        wait_time == Max(reset_time - t, 1)
    IN  wait_time + 1

\* Mutant of ScanAssets: the scan does not stop at the first match.
RECURSIVE ScanAssets_LastMatch(_, _)
ScanAssets_LastMatch(assets, asset_pattern) ==
    IF assets = <<>> THEN <<>>
    ELSE LET later == ScanAssets_LastMatch(Tail(assets), asset_pattern)
         IN  IF later # <<>> THEN later
             ELSE IF fnmatch(Head(assets).name, asset_pattern) THEN <<Head(assets)>>
             ELSE <<>>

\* The scan of the release's assets: the first whose name matches, if any.
RECURSIVE ScanAssets(_, _)
ScanAssets(assets, asset_pattern) ==
    IF assets = <<>> THEN <<>>
    ELSE IF fnmatch(Head(assets).name, asset_pattern) THEN <<Head(assets)>>
    ELSE ScanAssets(Tail(assets), asset_pattern)

\* The asset_info dict built from a matching asset.
AssetInfo(asset, release_data, response, current_time) ==
    [url |-> asset.browser_download_url,
     version |-> Get(release_data, "tag_name", "N/A"),
     timestamp |-> isoformat(current_time),
     etag |-> Get(response.headers, "ETag", "")]

\* A 200: the release looked at (the first of the list when no tag is
\* pinned; <<>> when the list is empty).
ReleaseData(component, response) ==
    IF Get(component, "tag", "") = ""
    THEN (IF response.json = <<>> THEN <<>> ELSE <<response.json[1]>>)
    ELSE <<response.json>>

\* How a call that has returned came to its value: from the fresh cache
\* ("hit"), from a 304 ("not_modified"), from a 200 with a matching asset
\* ("stored"), or with None ("none").
Outcome(c) ==
    IF "response" \notin DOMAIN c THEN "hit"
    ELSE IF "exception" \in DOMAIN c.response THEN "none"
    ELSE IF c.response.status = 304 THEN "not_modified"
    ELSE IF c.response.status = 200 /\ c.ret # None THEN "stored"
    ELSE "none"

\* A call that has returned.
Returned(value, response) ==
    [pc |-> "done", component |-> call.component,
     current_time |-> call.current_time, request |-> call.request,
     response |-> response, ret |-> value]

\* get_release_asset_info from its request on: one request is answered.
Respond(response) ==
    LET component == call.component
        cache_key == CacheKey(component)
    IN
    /\ call.pc = "request"
    /\ requests' = requests + 1
    /\ IF "exception" \in DOMAIN response
       THEN /\ call' = Returned(None, response)
            /\ UNCHANGED <<cache, now>>
       ELSE IF response.status = 304
       THEN /\ call' = Returned(cache[cache_key], response)
            /\ UNCHANGED <<cache, now>>
       ELSE IF RateLimited(response)
       THEN /\ requests + 1 < MaxDepth
            /\ now + SleepTime(response, now) <= MaxNow
            /\ now' = now + SleepTime(response, now)
            /\ call' = Enter(component, github_pat, cache, now')
            /\ UNCHANGED cache
       ELSE IF response.status >= 400
       THEN /\ call' = Returned(None, response)
            /\ UNCHANGED <<cache, now>>
       ELSE LET release == ReleaseData(component, response)
                found == IF release = <<>> THEN <<>>
                         ELSE ScanAssets(Get(release[1], "assets", <<>>),
                                         component.asset_pattern)
            IN  IF found = <<>>
                THEN /\ call' = Returned(None, response)
                     /\ UNCHANGED <<cache, now>>
                ELSE LET asset_info == AssetInfo(found[1], release[1], response,
                                                 call.current_time)
                     IN  /\ cache' = Put(cache, cache_key, asset_info)
                         /\ call' = Returned(asset_info, response)
                         /\ UNCHANGED now
    /\ UNCHANGED <<clear_cache, github_pat, start, ncalls, last>>
    /\ UNCHANGED <<identityVars, builderVars, stepVars>>

\* The API answers the pending request, whichever way it may.
Answer ==
    /\ call.pc = "request"
    /\ \E response \in Responses(call.request, call.component, now) :
           Respond(response)

----------------------------------------------------------------------------
(* Build identity: the content hash and the changelog of a selection.      *)
(* user_choices is a Python dict that is iterated, so it is the sequence   *)
(* of its items [id, comp] in iteration order, ids distinct.               *)

\* The characters the model's ids are made of, in code point order.
Alphabet == ".0123456789:ABCDEFGHIJKLMNOPQRSTUVWXYZ_abcdefghijklmnopqrstuvwxyz"

\* ord(ch), up to an order-preserving renumbering: ch's place in Alphabet.
RECURSIVE Place(_, _)
Place(ch, str) == IF Head(str) = ch THEN 1 ELSE 1 + Place(ch, Tail(str))

Ord(ch) == Place(ch, Alphabet)

\* a < b on Python strings: lexicographic by code point.
RECURSIVE StrLess(_, _)
StrLess(a, b) ==
    IF b = "" THEN FALSE
    ELSE IF a = "" THEN TRUE
    ELSE IF Head(a) = Head(b) THEN StrLess(Tail(a), Tail(b))
    ELSE Ord(Head(a)) < Ord(Head(b))

\* sorted() of a set of distinct strings.
RECURSIVE sorted(_)
sorted(S) ==
    IF S = {} THEN <<>>
    ELSE LET least == CHOOSE x \in S : \A y \in S \ {x} : StrLess(x, y)
         IN  <<least>> \o sorted(S \ {least})

\* dict.keys() of an items sequence, and the value under a key.
Keys(items) == {items[i].id : i \in 1..Len(items)}

Value(items, id) == (CHOOSE i \in 1..Len(items) : items[i].id = id)

\* comp.get('asset_info', {}).get('version', 'N/A')
VersionOf(comp) == Get(Get(comp, "asset_info", EmptyDict), "version", "N/A")

\* The bytes fed to the hasher: "{comp_id}:{version}" for each id of
\* sorted(user_choices.keys()), one after the other.
RECURSIVE HashInput(_, _)
HashInput(items, ids) ==
    IF ids = <<>> THEN ""
    ELSE Head(ids) \o ":" \o VersionOf(items[Value(items, Head(ids))].comp)
             \o HashInput(items, Tail(ids))

\* hashlib.sha1(data).hexdigest()[:7], idealised: a digest that differs
\* whenever the data differs.
sha1hex7(data) == "sha1{" \o data \o "}"

\* Mutant of compute_content_hash: the ids are visited in the dict's own
\* order, not sorted.
compute_content_hash_Unsorted(items) ==
    sha1hex7(HashInput(items, [i \in 1..Len(items) |-> items[i].id]))

compute_content_hash(items) == sha1hex7(HashInput(items, sorted(Keys(items))))

\* The changelog lines of the selected ids, in the order of ids: one for
\* an id the last build did not have, one for an id whose version differs.
RECURSIVE SelectedLines(_, _, _)
SelectedLines(items, ids, last_components) ==
    IF ids = <<>> THEN <<>>
    ELSE LET comp_id == Head(ids)
             comp_data == items[Value(items, comp_id)].comp
             current_version == VersionOf(comp_data)
             line ==
                 IF comp_id \notin DOMAIN last_components
                 THEN <<"* " \o comp_data.name \o ": Newly Added ("
                            \o current_version \o ")">>
                 ELSE IF Get(last_components[comp_id], "version", "None") # current_version
                 THEN <<"* " \o comp_data.name \o ": Updated from "
                            \o Get(last_components[comp_id], "version", "None")
                            \o " to " \o current_version>>
                 ELSE <<>>
         IN  line \o SelectedLines(items, Tail(ids), last_components)

\* The changelog lines of the ids of the last build that are not selected.
RECURSIVE RemovedLines(_, _, _)
RemovedLines(ids, last_components, items) ==
    IF ids = <<>> THEN <<>>
    ELSE LET comp_id == Head(ids)
             last_comp_info == last_components[comp_id]
             line ==
                 IF comp_id \notin Keys(items)
                 THEN <<"* " \o Get(last_comp_info, "name", comp_id)
                            \o ": Removed (was "
                            \o Get(last_comp_info, "version", "None") \o ")">>
                 ELSE <<>>
         IN  line \o RemovedLines(Tail(ids), last_components, items)

\* Mutant of Changelog: only the ids that left the selection are reported.
Changelog_RemovedOnly(items, build) ==
    LET last_components == Get(build, "components", EmptyDict)
    IN  RemovedLines(sorted(DOMAIN last_components), last_components, items)

\* Mutant of Changelog: the selected ids are visited in the dict's own
\* order, not sorted.
Changelog_Unsorted(items, build) ==
    LET last_components == Get(build, "components", EmptyDict)
    IN  SelectedLines(items, [i \in 1..Len(items) |-> items[i].id], last_components)
            \o RemovedLines(sorted(DOMAIN last_components), last_components, items)

\* The list changes of run_builder.
Changelog(items, build) ==
    LET last_components == Get(build, "components", EmptyDict)
    IN  SelectedLines(items, sorted(Keys(items)), last_components)
            \o RemovedLines(sorted(DOMAIN last_components), last_components, items)

\* f"{OUTPUT_FILENAME_BASE}-{timestamp}-{content_hash}.zip"
OUTPUT_FILENAME_BASE == "HATS"

OutputFilename(ts, hash) ==
    OUTPUT_FILENAME_BASE \o "-" \o ts \o "-" \o hash \o ".zip"

\* Mutant of BuildInfo: the components of the last record are kept beside
\* the selected ones.
BuildInfo_Merged(hash, ts, items) ==
    [content_hash |-> hash,
     filename |-> OUTPUT_FILENAME_BASE \o "-" \o ts \o "-" \o hash \o ".zip",
     timestamp |-> ts,
     components |->
         [comp_id \in Keys(items) |->
             [name |-> items[Value(items, comp_id)].comp.name,
              version |-> VersionOf(items[Value(items, comp_id)].comp)]]
         @@ Get(last_build, "components", EmptyDict)]

\* Mutant of BuildInfo: only the components that were resolved are listed.
BuildInfo_ResolvedOnly(hash, ts, items) ==
    [content_hash |-> hash,
     filename |-> OutputFilename(ts, hash),
     timestamp |-> ts,
     components |->
         [comp_id \in {items[k].id : k \in {n \in 1..Len(items) :
                          "asset_info" \in DOMAIN items[n].comp}} |->
             [name |-> items[Value(items, comp_id)].comp.name,
              version |-> VersionOf(items[Value(items, comp_id)].comp)]]]

\* new_build_info, the record a completed build saves.
BuildInfo(hash, ts, items) ==
    [content_hash |-> hash,
     filename |-> OutputFilename(ts, hash),
     timestamp |-> ts,
     components |->
         [comp_id \in Keys(items) |->
             [name |-> items[Value(items, comp_id)].comp.name,
              version |-> VersionOf(items[Value(items, comp_id)].comp)]]]

----------------------------------------------------------------------------
(* Build identity on its own: selections and last-build records drawn as   *)
(* inputs, the hash and the changelog computed from them.                  *)

Ids == {"a", "ab", "b"}

Versions == {"1", "1a"}

\* A manifest entry; the display name differs from the id for two of them.
ManifestEntry(id) ==
    [name |-> (CASE id = "a" -> "Alpha" [] id = "b" -> "Beta" [] OTHER -> id),
     category |-> "Essential", source_type |-> "github_release",
     repo |-> "o/" \o id, asset_pattern |-> "*.z"]

\* The entry once resolved to a version.
Resolved(id, version) ==
    ManifestEntry(id) @@
    [asset_info |-> [url |-> "https://github.com/o/" \o id \o "/a.z",
                     version |-> version,
                     timestamp |-> isoformat(0), etag |-> ""]]

AllItems ==
    {[id |-> id, comp |-> ManifestEntry(id)] : id \in Ids}
    \cup {[id |-> id, comp |-> Resolved(id, v)] : id \in Ids, v \in Versions}

\* Every selection of at most MaxSelected components, in every order.
Selections ==
    {items \in UNION {[1..n -> AllItems] : n \in 0..MaxSelected} :
        \A i, j \in 1..Len(items) : items[i].id = items[j].id => i = j}

\* The records an earlier build can have saved, and none at all.
LastBuilds ==
    {EmptyDict}
    \cup {BuildInfo(compute_content_hash(items), "01012026", items) :
              items \in Selections}

\* The identity computation is not under way.
IdentityIdle ==
    /\ user_choices = <<>>
    /\ last_build = EmptyDict
    /\ content_hash = ""
    /\ changes = <<>>
    /\ other_choices = <<>>
    /\ other_hash = ""
    /\ stage = "idle"

\* Neither process_component nor download_file is under way.
StepsIdle ==
    /\ disk = EmptyDict
    /\ todo = <<>>
    /\ turn = 1
    /\ pos = 1
    /\ log = <<>>
    /\ download = [pc |-> "idle"]
    /\ keys = [pc |-> "idle"]

\* run_builder is not under way.
BuilderIdle ==
    /\ cache_file = <<>>
    /\ last_build_file = <<>>
    /\ files = {}
    /\ temp_download = <<>>
    /\ temp_build = <<>>
    /\ all_components = <<>>
    /\ index = 1
    /\ timestamp = ""
    /\ resolved = <<>>
    /\ downloaded = {}
    /\ processed = {}
    /\ failed = {}
    /\ packed = {}
    /\ ended = ""

\* The resolver is not under way.
ResolverIdle ==
    /\ now = 0
    /\ clear_cache = FALSE
    /\ github_pat = ""
    /\ cache = EmptyDict
    /\ call = [pc |-> "idle"]
    /\ start = [cache |-> EmptyDict, time |-> 0]
    /\ requests = 0
    /\ ncalls = 0
    /\ last = [component |-> EmptyDict]
    /\ BuilderIdle
    /\ StepsIdle

InitHash ==
    /\ ResolverIdle
    /\ user_choices \in Selections
    /\ other_choices = user_choices
    /\ last_build = EmptyDict
    /\ content_hash = ""
    /\ changes = <<>>
    /\ other_hash = ""
    /\ stage = "chosen"

\* The same selection is iterated in another order.
Reorder(items) ==
    /\ stage = "chosen"
    /\ UNCHANGED stepVars
    /\ Len(items) = Len(user_choices)
    /\ {items[i] : i \in 1..Len(items)} = {user_choices[i] : i \in 1..Len(user_choices)}
    /\ other_choices' = items
    /\ stage' = "paired"
    /\ UNCHANGED <<user_choices, last_build, content_hash, changes, other_hash>>
    /\ UNCHANGED <<resolverVars, builderVars>>

\* Another selection is made.
Alter(items) ==
    /\ stage = "chosen"
    /\ UNCHANGED stepVars
    /\ other_choices' = items
    /\ stage' = "paired"
    /\ UNCHANGED <<user_choices, last_build, content_hash, changes, other_hash>>
    /\ UNCHANGED <<resolverVars, builderVars>>

\* compute_content_hash is applied to both selections.
HashBoth ==
    /\ stage = "paired"
    /\ UNCHANGED stepVars
    /\ content_hash' = compute_content_hash(user_choices)
    /\ other_hash' = compute_content_hash(other_choices)
    /\ stage' = "hashed"
    /\ UNCHANGED <<user_choices, last_build, changes, other_choices>>
    /\ UNCHANGED <<resolverVars, builderVars>>

NextHash ==
    \/ \E items \in Selections : Reorder(items)
    \/ \E items \in Selections : Alter(items)
    \/ HashBoth

SpecHash == InitHash /\ [][NextHash]_vars

InitChangelog ==
    /\ ResolverIdle
    /\ user_choices \in Selections
    /\ last_build \in LastBuilds
    /\ content_hash = ""
    /\ changes = <<>>
    /\ other_choices = <<>>
    /\ other_hash = ""
    /\ stage = "selected"

\* run_builder from the selection to the changelog: the content hash, then
\* the lines against the last build.
Compare ==
    /\ stage = "selected"
    /\ UNCHANGED stepVars
    /\ content_hash' = compute_content_hash(user_choices)
    /\ changes' = Changelog(user_choices, last_build)
    /\ stage' = "compared"
    /\ UNCHANGED <<user_choices, last_build, other_choices, other_hash>>
    /\ UNCHANGED <<resolverVars, builderVars>>

NextChangelog == Compare

SpecChangelog == InitChangelog /\ [][NextChangelog]_vars

----------------------------------------------------------------------------
(* The resolver on its own: a driver that resolves descriptors one call    *)
(* after the other against one in-memory cache, the clock moving between   *)
(* the calls.                                                              *)

CompLatest ==
    [name |-> "Alpha", category |-> "Essential", source_type |-> "github_release",
     repo |-> "o/r", asset_pattern |-> "*.z"]

CompPinned ==
    [name |-> "Beta", category |-> "Essential", source_type |-> "github_release",
     repo |-> "o/r", tag |-> "v1", asset_pattern |-> "*.z"]

Descriptors == {CompLatest, CompPinned}

\* Caches an earlier pass has left: empty, or an entry written at tick 0.
InitCaches ==
    {EmptyDict,
     (CacheKey(CompLatest) :>
         AssetInfo(RelTwo.assets[1], RelTwo, [headers |-> ("ETag" :> "e1")], 0))}

Idle == [pc |-> "idle"]

NoCall == [component |-> EmptyDict]

InitResolver ==
    /\ now = 0
    /\ clear_cache \in BOOLEAN
    /\ github_pat \in {"", "ghp_1"}
    /\ cache \in (IF clear_cache THEN {EmptyDict} ELSE InitCaches)
    /\ call = Idle
    /\ start = [cache |-> cache, time |-> 0]
    /\ requests = 0
    /\ ncalls = 0
    /\ last = NoCall
    /\ IdentityIdle
    /\ BuilderIdle
    /\ StepsIdle

\* The driver calls get_release_asset_info(component, github_pat, cache).
Call(component) ==
    /\ call.pc = "idle"
    /\ ncalls < MaxCalls
    /\ ncalls' = ncalls + 1
    /\ start' = [cache |-> cache, time |-> now]
    /\ call' = Enter(component, github_pat, cache, now)
    /\ UNCHANGED <<now, clear_cache, github_pat, cache, requests, last>>
    /\ UNCHANGED <<identityVars, builderVars, stepVars>>

\* The call returns to the driver.
Return ==
    /\ call.pc = "done"
    /\ call' = Idle
    /\ last' = [component |-> call.component, ret |-> call.ret,
                requests |-> requests, time |-> start.time,
                outcome |-> Outcome(call)]
    /\ requests' = 0
    /\ start' = [cache |-> EmptyDict, time |-> 0]
    /\ UNCHANGED <<now, clear_cache, github_pat, cache, ncalls>>
    /\ UNCHANGED <<identityVars, builderVars, stepVars>>

\* The time that passes between two calls: one tick short of the cache
\* duration, or all of it.
TickSteps == {CACHE_DURATION - 1, CACHE_DURATION}

\* Time passes between two calls.
Tick(d) ==
    /\ call.pc = "idle"
    /\ now + d <= MaxNow
    /\ now' = now + d
    /\ UNCHANGED <<clear_cache, github_pat, cache, call, start, requests, ncalls, last>>
    /\ UNCHANGED <<identityVars, builderVars, stepVars>>

NextResolver ==
    \/ \E component \in Descriptors : Call(component)
    \/ Answer
    \/ Return
    \/ \E d \in TickSteps : Tick(d)

SpecResolver == InitResolver /\ [][NextResolver]_vars

----------------------------------------------------------------------------
(* The builder: run_builder, cut at the points where it waits for the      *)
(* release API, for a download or for the user.  stage is its position:    *)
(* "top" (the head of its while loop), "pass" (the resolution pass),       *)
(* "select", "identical" (the no-updates prompt), "confirm", "build" (the  *)
(* loop over the selection) and "returned".                                *)

\* A component that is fetched from a fixed URL.
DirectEntry ==
    [name |-> "Delta", category |-> "Essential", source_type |-> "direct_url",
     url |-> "https://example.com/d.z"]

\* components.json as load_components returns it, in file order.
Manifest ==
    <<[id |-> "b", comp |-> ManifestEntry("b")],
      [id |-> "d", comp |-> DirectEntry],
      [id |-> "a", comp |-> ManifestEntry("a")]>>

\* load_cache and load_last_build: the file's content, {} when it is absent.
load_cache(file) == IF file = <<>> THEN EmptyDict ELSE file[1]

load_last_build(file) == IF file = <<>> THEN EmptyDict ELSE file[1]

\* datetime.now().strftime('%d%m%Y'), one tick being one hour.
strftime(t) == IF t < 24 THEN "01012026" ELSE "02012026"

\* The name of the summary create_pack_summary writes into the build folder.
SummaryFilename(output_filename) ==
    SubSeq(output_filename, 1, Len(output_filename) - 4) \o ".txt"

\* The cache file an earlier run has left: none, or one with the entry of
\* component a written at tick 0.
CacheFiles ==
    {<<>>,
     <<(CacheKey(ManifestEntry("a")) :>
           AssetInfo(RelTwo.assets[1], RelTwo, [headers |-> ("ETag" :> "e1")], 0))>>}

\* The build records an earlier run has left: none, one of a build of a
\* (at v1) and d, one of a build of b when it could not be resolved.
BuildFiles ==
    {<<>>}
    \cup {<<BuildInfo(compute_content_hash(items), "01012026", items)>> :
             items \in {<<[id |-> "a",
                           comp |-> Put(ManifestEntry("a"), "asset_info",
                                        AssetInfo(RelTwo.assets[1], RelTwo,
                                                  [headers |-> ("ETag" :> "e1")], 0))],
                          [id |-> "d", comp |-> DirectEntry]>>,
                        <<[id |-> "b", comp |-> ManifestEntry("b")]>>}}

\* The temporary folders an earlier run has left: none after a build that
\* ran to its end and saved its record, none or stale ones otherwise.
TempFolders(file) == IF file = <<>> THEN {<<>>, <<{"stale"}>>} ELSE {<<>>}

\* The hour run_builder is started at: the entry of tick 0 is still fresh,
\* or has just expired.
StartTimes == {CACHE_DURATION - 3, CACHE_DURATION}

PatInputs == {"", "ghp_1", "back"}

Init ==
    /\ now \in StartTimes
    /\ clear_cache \in BOOLEAN
    /\ github_pat \in {"", "ghp_1"}
    /\ cache = EmptyDict
    /\ call = Idle
    /\ start = [cache |-> EmptyDict, time |-> 0]
    /\ requests = 0
    /\ ncalls = 0
    /\ last = NoCall
    /\ user_choices = <<>>
    /\ last_build = EmptyDict
    /\ content_hash = ""
    /\ changes = <<>>
    /\ other_choices = <<>>
    /\ other_hash = ""
    /\ stage = "top"
    /\ cache_file \in CacheFiles
    /\ last_build_file \in BuildFiles
    /\ files \in (IF last_build_file = <<>> THEN {{}}
                  ELSE {{}, {last_build_file[1].filename}})
    /\ temp_download \in TempFolders(last_build_file)
    /\ temp_build = temp_download
    /\ all_components = <<>>
    /\ index = 1
    /\ timestamp = ""
    /\ resolved = <<>>
    /\ downloaded = {}
    /\ processed = {}
    /\ failed = {}
    /\ packed = {}
    /\ ended = ""
    /\ StepsIdle

\* The head of the loop up to the resolution pass: the cache file is removed
\* when a refresh is forced, the token is asked for when there is none, the
\* manifest and the cache are loaded.
Start(pat_input) ==
    /\ stage = "top"
    /\ UNCHANGED stepVars
    /\ cache_file' = IF clear_cache THEN <<>> ELSE cache_file
    /\ IF github_pat = "" /\ pat_input = "back"
       THEN /\ stage' = "returned"
            /\ ended' = "back"
            /\ UNCHANGED <<github_pat, cache, all_components, index, resolved>>
       ELSE /\ github_pat' = IF github_pat = "" THEN pat_input ELSE github_pat
            /\ all_components' = Manifest
            /\ cache' = load_cache(cache_file')
            /\ index' = 1
            /\ resolved' = <<>>
            /\ stage' = "pass"
            /\ UNCHANGED ended
    /\ UNCHANGED <<now, clear_cache, call, start, requests, ncalls, last>>
    /\ UNCHANGED <<user_choices, last_build, content_hash, changes,
                   other_choices, other_hash>>
    /\ UNCHANGED <<last_build_file, files, temp_download, temp_build,
                   timestamp, downloaded, processed>>
    /\ UNCHANGED failed
    /\ UNCHANGED packed

\* The pass reaches a github_release component and calls the resolver.
PassCall ==
    /\ stage = "pass"
    /\ index <= Len(all_components)
    /\ call.pc = "idle"
    /\ Get(all_components[index].comp, "source_type", "") = "github_release"
    /\ call' = Enter(all_components[index].comp, github_pat, cache, now)
    /\ start' = [cache |-> cache, time |-> now]
    /\ UNCHANGED <<now, clear_cache, github_pat, cache, requests, ncalls, last>>
    /\ UNCHANGED <<identityVars, builderVars, stepVars>>

\* The pass steps over a component of another source type.
PassSkip ==
    /\ stage = "pass"
    /\ UNCHANGED stepVars
    /\ index <= Len(all_components)
    /\ call.pc = "idle"
    /\ Get(all_components[index].comp, "source_type", "") # "github_release"
    /\ index' = index + 1
    /\ UNCHANGED <<resolverVars, identityVars>>
    /\ UNCHANGED <<cache_file, last_build_file, files, temp_download, temp_build,
                   all_components, timestamp, resolved, downloaded, processed>>
    /\ UNCHANGED ended
    /\ UNCHANGED failed
    /\ UNCHANGED packed

\* all_components[component_id]['asset_info'] = asset_info, if asset_info.
Assign(components, k, asset_info) ==
    IF asset_info # None
    THEN [components EXCEPT ![k].comp = Put(@, "asset_info", asset_info)]
    ELSE components

\* The resolver returns to the pass.
PassReturn ==
    /\ stage = "pass"
    /\ UNCHANGED stepVars
    /\ call.pc = "done"
    /\ all_components' = Assign(all_components, index, call.ret)
    /\ resolved' = Append(resolved, [id |-> all_components[index].id,
                                     outcome |-> Outcome(call)])
    /\ index' = index + 1
    /\ call' = Idle
    /\ requests' = 0
    /\ start' = [cache |-> EmptyDict, time |-> 0]
    /\ UNCHANGED <<now, clear_cache, github_pat, cache, ncalls, last>>
    /\ UNCHANGED identityVars
    /\ UNCHANGED <<cache_file, last_build_file, files, temp_download, temp_build,
                   timestamp, downloaded, processed>>
    /\ UNCHANGED ended
    /\ UNCHANGED failed
    /\ UNCHANGED packed

\* Mutant of PassEnd: the pass ends without saving the cache.
PassEnd_NoSave ==
    /\ stage = "pass"
    /\ UNCHANGED stepVars
    /\ index > Len(all_components)
    /\ call.pc = "idle"
    /\ stage' = "select"
    /\ UNCHANGED resolverVars
    /\ UNCHANGED <<user_choices, last_build, content_hash, changes,
                   other_choices, other_hash>>
    /\ UNCHANGED builderVars

\* The pass is over: save_cache.
PassEnd ==
    /\ stage = "pass"
    /\ UNCHANGED stepVars
    /\ index > Len(all_components)
    /\ call.pc = "idle"
    /\ cache_file' = <<cache>>
    /\ stage' = "select"
    /\ UNCHANGED resolverVars
    /\ UNCHANGED <<user_choices, last_build, content_hash, changes,
                   other_choices, other_hash>>
    /\ UNCHANGED <<last_build_file, files, temp_download, temp_build,
                   all_components, index, timestamp, resolved, downloaded, processed>>
    /\ UNCHANGED ended
    /\ UNCHANGED failed
    /\ UNCHANGED packed

\* The checkbox's answers: the ids ticked, in the order of the choice list
\* (sorted by id, the components being of one category), at least one.
Selectable ==
    {sorted(S) : S \in SUBSET Keys(all_components) \ {{}}}

\* Mutant of Identical: the file named in the record is not looked for.
Identical_NoFile(lines, build, hash) ==
    /\ lines = <<>>
    /\ Get(build, "content_hash", "") = hash

\* The no-updates test after the changelog.
Identical(lines, build, hash) ==
    /\ lines = <<>>
    /\ Get(build, "content_hash", "") = hash
    /\ Get(build, "filename", "") # ""
    /\ Get(build, "filename", "") \in files

\* The user ticks components: the selection, its hash and output name, the
\* last build and the changelog against it, up to the next prompt.
Select(selected_ids) ==
    /\ stage = "select"
    /\ UNCHANGED stepVars
    /\ user_choices' = [k \in 1..Len(selected_ids) |->
                           all_components[Value(all_components, selected_ids[k])]]
    /\ content_hash' = compute_content_hash(user_choices')
    /\ timestamp' = strftime(now)
    /\ last_build' = load_last_build(last_build_file)
    /\ changes' = Changelog(user_choices', last_build')
    /\ stage' = IF Identical(changes', last_build', content_hash')
                THEN "identical" ELSE "confirm"
    /\ UNCHANGED <<resolverVars, other_choices, other_hash>>
    /\ UNCHANGED <<cache_file, last_build_file, files, temp_download, temp_build,
                   all_components, index, resolved, downloaded, processed>>
    /\ UNCHANGED ended
    /\ UNCHANGED failed
    /\ UNCHANGED packed

\* The checkbox is answered with a selection.
Checkbox ==
    /\ stage = "select"
    /\ \E selected_ids \in Selectable : Select(selected_ids)

\* The user leaves the checkbox for the main menu.
ReturnToMain ==
    /\ stage = "select"
    /\ UNCHANGED stepVars
    /\ stage' = "returned"
    /\ ended' = "main"
    /\ UNCHANGED resolverVars
    /\ UNCHANGED <<cache_file, last_build_file, files, temp_download, temp_build,
                   all_components, index, timestamp, resolved, downloaded, processed>>
    /\ UNCHANGED <<user_choices, last_build, content_hash, changes,
                   other_choices, other_hash>>
    /\ UNCHANGED failed
    /\ UNCHANGED packed

SkipChoices == {"skip_and_return", "rebuild_anyway", "return_to_builder", "none"}

\* The answer to the no-updates prompt.
Decide(choice) ==
    /\ stage = "identical"
    /\ UNCHANGED stepVars
    /\ stage' = CASE choice = "skip_and_return" -> "returned"
                  [] choice = "return_to_builder" -> "top"
                  [] OTHER -> "confirm"
    /\ ended' = IF choice = "skip_and_return" THEN "skip" ELSE ended
    /\ UNCHANGED resolverVars
    /\ UNCHANGED <<cache_file, last_build_file, files, temp_download, temp_build,
                   all_components, index, timestamp, resolved, downloaded, processed>>
    /\ UNCHANGED <<user_choices, last_build, content_hash, changes,
                   other_choices, other_hash>>
    /\ UNCHANGED failed
    /\ UNCHANGED packed

ConfirmChoices == {"proceed", "return_to_builder", "none"}

\* Mutant of Confirm: the folders are made if missing, never removed first.
Confirm_NoWipe(confirm_choice, skeleton_found) ==
    /\ stage = "confirm"
    /\ UNCHANGED stepVars
    /\ IF confirm_choice = "proceed"
       THEN /\ temp_download' = IF temp_download = <<>> THEN <<{}>> ELSE temp_download
            /\ temp_build' = <<(IF temp_build = <<>> THEN {} ELSE temp_build[1])
                               \cup (IF skeleton_found THEN {"skeleton"} ELSE {})>>
            /\ stage' = IF skeleton_found THEN "build" ELSE "returned"
            /\ ended' = IF skeleton_found THEN ended ELSE "skeleton"
            /\ index' = 1
            /\ downloaded' = {}
            /\ processed' = {}
            /\ failed' = {}
       ELSE /\ stage' = IF confirm_choice = "return_to_builder"
                        THEN "top" ELSE "returned"
            /\ ended' = IF confirm_choice = "return_to_builder"
                        THEN ended ELSE "cancel"
            /\ UNCHANGED <<temp_download, temp_build, index, downloaded, processed,
                           failed>>
    /\ UNCHANGED resolverVars
    /\ UNCHANGED <<user_choices, last_build, content_hash, changes,
                   other_choices, other_hash>>
    /\ UNCHANGED <<cache_file, last_build_file, files, all_components,
                   timestamp, resolved>>
    /\ UNCHANGED packed

\* Mutant of Confirm: the folders are wiped only once the skeleton is found.
Confirm_WipeLate(confirm_choice, skeleton_found) ==
    /\ stage = "confirm"
    /\ UNCHANGED stepVars
    /\ IF confirm_choice = "proceed"
       THEN /\ temp_download' = IF skeleton_found THEN <<{}>> ELSE temp_download
            /\ temp_build' = IF skeleton_found THEN <<{"skeleton"}>> ELSE temp_build
            /\ stage' = IF skeleton_found THEN "build" ELSE "returned"
            /\ ended' = IF skeleton_found THEN ended ELSE "skeleton"
            /\ index' = 1
            /\ downloaded' = {}
            /\ processed' = {}
            /\ failed' = {}
       ELSE /\ stage' = IF confirm_choice = "return_to_builder"
                        THEN "top" ELSE "returned"
            /\ ended' = IF confirm_choice = "return_to_builder"
                        THEN ended ELSE "cancel"
            /\ UNCHANGED <<temp_download, temp_build, index, downloaded, processed,
                           failed>>
    /\ UNCHANGED resolverVars
    /\ UNCHANGED <<user_choices, last_build, content_hash, changes,
                   other_choices, other_hash>>
    /\ UNCHANGED <<cache_file, last_build_file, files, all_components,
                   timestamp, resolved>>
    /\ UNCHANGED packed

\* The answer to the confirmation prompt and, on proceed, the start of the
\* build: both folders are wiped and made anew, the skeleton is extracted.
Confirm(confirm_choice, skeleton_found) ==
    /\ stage = "confirm"
    /\ UNCHANGED stepVars
    /\ IF confirm_choice = "proceed"
       THEN /\ temp_download' = <<{}>>
            /\ temp_build' = IF skeleton_found THEN <<{"skeleton"}>> ELSE <<{}>>
            /\ stage' = IF skeleton_found THEN "build" ELSE "returned"
            /\ ended' = IF skeleton_found THEN ended ELSE "skeleton"
            /\ index' = 1
            /\ downloaded' = {}
            /\ processed' = {}
            /\ failed' = {}
       ELSE /\ stage' = IF confirm_choice = "return_to_builder"
                        THEN "top" ELSE "returned"
            /\ ended' = IF confirm_choice = "return_to_builder"
                        THEN ended ELSE "cancel"
            /\ UNCHANGED <<temp_download, temp_build, index, downloaded, processed,
                           failed>>
    /\ UNCHANGED resolverVars
    /\ UNCHANGED <<user_choices, last_build, content_hash, changes,
                   other_choices, other_hash>>
    /\ UNCHANGED <<cache_file, last_build_file, files, all_components,
                   timestamp, resolved>>
    /\ UNCHANGED packed

\* Mutant of Buildable: every selected component is fetched.
Buildable_Any(component) == TRUE

\* The build loop's test: asset_info and asset_info.get("url").
Buildable(component) ==
    /\ "asset_info" \in DOMAIN component
    /\ component.asset_info # None
    /\ Get(component.asset_info, "url", "") # ""

\* "needle in str" for Python strings.
RECURSIVE Contains(_, _)
Contains(str, needle) ==
    IF Len(str) < Len(needle) THEN FALSE
    ELSE IF SubSeq(str, 1, Len(needle)) = needle THEN TRUE
    ELSE Contains(Tail(str), needle)

\* The headers download_file sends.
DownloadHeaders(url, token) ==
    IF token # "" /\ Contains(url, "github.com")
    THEN ("Authorization" :> ("token " \o token))
         @@ ("Accept" :> "application/octet-stream")
    ELSE EmptyDict

\* What a download may be answered with: no answer at all (a connection
\* error), the file, or an HTTP error.
DownloadResponses ==
    {[exception |-> "ConnectionError"], [status |-> 200], [status |-> 404]}

\* download_file: the request it makes and the value it returns.
download_file(url, token, response) ==
    [url |-> url, headers |-> DownloadHeaders(url, token),
     ok |-> "status" \in DOMAIN response /\ response.status < 400]

\* Mutant of BuildDownload: a download that fails ends the build.
BuildDownload_Fatal(response) ==
    /\ stage = "build"
    /\ UNCHANGED stepVars
    /\ index <= Len(user_choices)
    /\ Buildable(user_choices[index].comp)
    /\ downloaded' = downloaded \cup {user_choices[index].id}
    /\ IF download_file(Get(Get(user_choices[index].comp, "asset_info",
                                 EmptyDict), "url", ""),
                        github_pat, response).ok
       THEN /\ temp_download' = <<temp_download[1] \cup {user_choices[index].id}>>
            /\ processed' = processed \cup {user_choices[index].id}
            /\ temp_build' = <<temp_build[1] \cup {user_choices[index].id}>>
            /\ index' = index + 1
            /\ UNCHANGED <<failed, stage, ended>>
       ELSE /\ failed' = failed \cup {user_choices[index].id}
            /\ stage' = "returned"
            /\ ended' = "download"
            /\ UNCHANGED <<temp_download, processed, temp_build, index>>
    /\ UNCHANGED resolverVars
    /\ UNCHANGED <<user_choices, last_build, content_hash, changes,
                   other_choices, other_hash>>
    /\ UNCHANGED <<cache_file, last_build_file, files, all_components,
                   timestamp, resolved>>
    /\ UNCHANGED packed

\* The build loop fetches a component; when download_file succeeds,
\* process_component works on the file.
BuildDownload(response) ==
    /\ stage = "build"
    /\ UNCHANGED stepVars
    /\ index <= Len(user_choices)
    /\ Buildable(user_choices[index].comp)
    /\ downloaded' = downloaded \cup {user_choices[index].id}
    /\ IF download_file(Get(Get(user_choices[index].comp, "asset_info",
                                 EmptyDict), "url", ""),
                        github_pat, response).ok
       THEN /\ temp_download' = <<temp_download[1] \cup {user_choices[index].id}>>
            /\ processed' = processed \cup {user_choices[index].id}
            /\ temp_build' = <<temp_build[1] \cup {user_choices[index].id}>>
            /\ UNCHANGED failed
       ELSE /\ failed' = failed \cup {user_choices[index].id}
            /\ UNCHANGED <<temp_download, processed, temp_build>>
    /\ index' = index + 1
    /\ UNCHANGED <<resolverVars, identityVars>>
    /\ UNCHANGED <<cache_file, last_build_file, files, all_components,
                   timestamp, resolved>>
    /\ UNCHANGED ended
    /\ UNCHANGED packed

\* The build loop skips a component that has no asset_info.
BuildSkip ==
    /\ stage = "build"
    /\ UNCHANGED stepVars
    /\ index <= Len(user_choices)
    /\ ~Buildable(user_choices[index].comp)
    /\ index' = index + 1
    /\ UNCHANGED <<resolverVars, identityVars>>
    /\ UNCHANGED <<cache_file, last_build_file, files, temp_download, temp_build,
                   all_components, timestamp, resolved, downloaded, processed>>
    /\ UNCHANGED ended
    /\ UNCHANGED failed
    /\ UNCHANGED packed

\* The end of the build: the summary is written into the build folder, the
\* folder is zipped, the build record is saved, both folders are removed.
Finish ==
    /\ stage = "build"
    /\ UNCHANGED stepVars
    /\ index > Len(user_choices)
    /\ files' = files \cup {OutputFilename(timestamp, content_hash)}
    /\ last_build_file' = <<BuildInfo(content_hash, timestamp, user_choices)>>
    /\ packed' = temp_build[1]
                   \cup {SummaryFilename(OutputFilename(timestamp, content_hash))}
    /\ temp_download' = <<>>
    /\ temp_build' = <<>>
    /\ stage' = "returned"
    /\ ended' = "complete"
    /\ UNCHANGED resolverVars
    /\ UNCHANGED <<user_choices, last_build, content_hash, changes,
                   other_choices, other_hash>>
    /\ UNCHANGED <<cache_file, all_components, index, timestamp, resolved,
                   downloaded, processed>>
    /\ UNCHANGED failed

Next ==
    \/ \E pat_input \in PatInputs : Start(pat_input)
    \/ PassCall
    \/ PassSkip
    \/ Answer
    \/ PassReturn
    \/ PassEnd
    \/ Checkbox
    \/ ReturnToMain
    \/ \E choice \in SkipChoices : Decide(choice)
    \/ \E confirm_choice \in ConfirmChoices, skeleton_found \in BOOLEAN :
           Confirm(confirm_choice, skeleton_found)
    \/ \E response \in DownloadResponses : BuildDownload(response)
    \/ BuildSkip
    \/ Finish

Spec == Init /\ [][Next]_vars

----------------------------------------------------------------------------
(* The step interpreter: process_component on a downloaded file and the    *)
(* build folder.  Paths are Python strings; the file system maps the       *)
(* normalised path (the sequence of its segments, "." and ".." resolved)   *)
(* of every file and folder to its node: [dir |-> TRUE] or [data |-> d];   *)
(* the root folder is the empty path.                                      *)

\* The last character of a string.
Last(str) == SubSeq(str, Len(str), Len(str))

\* str.strip('/\\').
RECURSIVE lstrip(_)
lstrip(str) ==
    IF str # "" /\ Head(str) \in {"/", "\\"} THEN lstrip(Tail(str)) ELSE str

RECURSIVE rstrip(_)
rstrip(str) ==
    IF str # "" /\ Last(str) \in {"/", "\\"}
    THEN rstrip(SubSeq(str, 1, Len(str) - 1)) ELSE str

strip(str) == rstrip(lstrip(str))

\* os.path.join(a, b).
join(a, b) ==
    IF b # "" /\ Head(b) = "/" THEN b
    ELSE IF a = "" \/ Last(a) = "/" THEN a \o b
    ELSE a \o "/" \o b

\* str.split('/').
RECURSIVE Split(_)
Split(str) ==
    IF str = "" THEN <<"">>
    ELSE LET rest == Split(Tail(str))
         IN  IF Head(str) = "/" THEN <<"">> \o rest
             ELSE <<Head(str) \o rest[1]>> \o Tail(rest)

\* os.path.basename and os.path.dirname.
basename(str) == LET segs == Split(str) IN segs[Len(segs)]

RECURSIVE rstripsep(_)
rstripsep(str) ==
    IF str # "" /\ Last(str) = "/"
    THEN rstripsep(SubSeq(str, 1, Len(str) - 1)) ELSE str

dirname(str) ==
    LET head == SubSeq(str, 1, Len(str) - Len(basename(str)))
    IN  IF rstripsep(head) = "" THEN head ELSE rstripsep(head)

\* The path the operating system resolves a string to.
RECURSIVE Resolve(_, _)
Resolve(segs, at) ==
    IF segs = <<>> THEN at
    ELSE IF Head(segs) \in {"", "."} THEN Resolve(Tail(segs), at)
    ELSE IF Head(segs) = ".."
    THEN Resolve(Tail(segs), IF at = <<>> THEN at ELSE SubSeq(at, 1, Len(at) - 1))
    ELSE Resolve(Tail(segs), Append(at, Head(segs)))

Norm(str) == Resolve(Split(str), <<>>)

\* Nodes of the file system.
Dir == [dir |-> TRUE]

File(d) == [data |-> d]

IsDir(fs, p) == p \in DOMAIN fs /\ "dir" \in DOMAIN fs[p]

IsFile(fs, p) == p \in DOMAIN fs /\ "data" \in DOMAIN fs[p]

\* p lies below q, or is q.
Within(p, q) == Len(q) <= Len(p) /\ SubSeq(p, 1, Len(q)) = q

Parent(p) == SubSeq(p, 1, Len(p) - 1)

\* The outcome of a call: the file system it leaves, and the exception it
\* raised ("" when none).
Done(fs) == [ok |-> TRUE, fs |-> fs, error |-> ""]

Raise(fs, error) == [ok |-> FALSE, fs |-> fs, error |-> error]

\* os.makedirs(path, exist_ok=True): the folder and its missing ancestors.
makedirs(fs, p) ==
    IF \E n \in 1..Len(p) : IsFile(fs, SubSeq(p, 1, n))
    THEN Raise(fs, "FileExistsError")
    ELSE Done([q \in DOMAIN fs \cup {SubSeq(p, 1, n) : n \in 1..Len(p)} |->
                  IF q \in DOMAIN fs THEN fs[q] ELSE Dir])

\* open(path, 'wb') and a write of d.
write(fs, p, d) ==
    IF IsDir(fs, p) THEN Raise(fs, "IsADirectoryError")
    ELSE IF ~IsDir(fs, Parent(p)) THEN Raise(fs, "FileNotFoundError")
    ELSE Done([q \in DOMAIN fs \cup {p} |-> IF q = p THEN File(d) ELSE fs[q]])

\* shutil.rmtree(path) and os.remove(path).
remove(fs, p) == [q \in {x \in DOMAIN fs : ~Within(x, p)} |-> fs[q]]

\* glob.has_magic(s).
has_magic(str) == \E ch \in {"*", "?", "["} : Contains(str, ch)

\* The names in folder at that a pattern segment matches (glob1: names
\* that start with a dot match only a pattern that starts with one).
Listed(fs, at, pattern) ==
    {p[Len(p)] : p \in {q \in DOMAIN fs :
        /\ Len(q) = Len(at) + 1
        /\ Parent(q) = at
        /\ fnmatch(q[Len(q)], pattern)
        /\ Head(q[Len(q)]) = "." => Head(pattern) = "."}}

\* glob.glob(pattern): the existing paths the pattern names, walked one
\* segment at a time from folder at.
RECURSIVE GlobFrom(_, _, _)
GlobFrom(fs, at, segs) ==
    IF segs = <<>> THEN (IF at \in DOMAIN fs THEN {at} ELSE {})
    ELSE IF Head(segs) \in {"", "."} THEN GlobFrom(fs, at, Tail(segs))
    ELSE IF ~IsDir(fs, at) THEN {}
    ELSE IF Head(segs) = ".."
    THEN GlobFrom(fs, IF at = <<>> THEN at ELSE Parent(at), Tail(segs))
    ELSE IF has_magic(Head(segs))
    THEN UNION {GlobFrom(fs, Append(at, n), Tail(segs)) :
                    n \in Listed(fs, at, Head(segs))}
    ELSE GlobFrom(fs, Append(at, Head(segs)), Tail(segs))

glob(fs, pattern) == GlobFrom(fs, <<>>, Split(pattern))

\* ZipInfo.is_dir(): the entry's name ends with a slash.
is_dir(member) == Last(member.filename) = "/"

\* ZipFile.extractall(target): every entry in order, folders made as needed;
\* what was extracted before an exception stays.
RECURSIVE extractall(_, _, _)
extractall(fs, target, members) ==
    IF members = <<>> THEN Done(fs)
    ELSE LET member == Head(members)
             p == Norm(join(target, member.filename))
             upper == makedirs(fs, Parent(p))
             r == IF is_dir(member) THEN makedirs(fs, p)
                  ELSE IF upper.ok THEN write(upper.fs, p, member.data)
                  ELSE upper
         IN  IF r.ok THEN extractall(r.fs, target, Tail(members)) ELSE r

\* zipfile.ZipFile(downloaded_file_path): the entries, when the file is a zip.
IsZip(file) == "members" \in DOMAIN file

\* shutil.copy(src, dst): into dst under the source's name when dst is a
\* folder, else onto dst.
copy(fs, file, dst) ==
    IF IsDir(fs, Norm(dst))
    THEN write(fs, Norm(join(dst, file.name)), file.data)
    ELSE write(fs, Norm(dst), file.data)

\* The entry a scan of infolist() stops at: the index of the first member that
\* matches, 0 when none does; files_only leaves folder entries out.
RECURSIVE FirstFrom(_, _, _, _)
FirstFrom(members, k, pattern, files_only) ==
    IF k > Len(members) THEN 0
    ELSE IF /\ fnmatch(basename(members[k].filename), pattern)
            /\ files_only => ~is_dir(members[k])
    THEN k
    ELSE FirstFrom(members, k + 1, pattern, files_only)

\* The build folder process_component is handed.
build_dir == "/base/build"

\* step['key'] raises KeyError when the step has no such key.
Missing(step, needed) == \E k \in needed : k \notin DOMAIN step

unzip_to_root(fs, file) ==
    IF ~IsZip(file) THEN Raise(fs, "BadZipFile")
    ELSE extractall(fs, build_dir, file.members)

copy_file(fs, file, step) ==
    IF Missing(step, {"target_path"}) THEN Raise(fs, "KeyError")
    ELSE LET target_path == join(build_dir, strip(step.target_path))
             made == makedirs(fs, Norm(dirname(target_path)))
         IN  IF made.ok THEN copy(made.fs, file, target_path) ELSE made

unzip_folder(fs, file, step) ==
    IF Missing(step, {"target_path"}) THEN Raise(fs, "KeyError")
    ELSE LET target_dir == join(build_dir, strip(step.target_path))
             made == makedirs(fs, Norm(target_dir))
         IN  IF ~made.ok THEN made
             ELSE IF ~IsZip(file) THEN Raise(made.fs, "BadZipFile")
             ELSE extractall(made.fs, target_dir, file.members)

\* The scan stops at the first entry that is not a folder and whose basename
\* matches, and writes it under that basename.
find_and_copy_AnyEntry(fs, file, step) ==
    IF Missing(step, {"source_file_pattern", "target_path"})
    THEN Raise(fs, "KeyError")
    ELSE LET target_dir == join(build_dir, strip(step.target_path))
             made == makedirs(fs, Norm(target_dir))
         IN  IF ~made.ok THEN made
             ELSE IF ~IsZip(file) THEN Raise(made.fs, "BadZipFile")
             ELSE LET k == FirstFrom(file.members, 1,
                                     step.source_file_pattern, FALSE)
                  IN  IF k = 0 THEN made
                      ELSE write(made.fs,
                                 Norm(join(target_dir,
                                           basename(file.members[k].filename))),
                                 file.members[k].data)

find_and_copy(fs, file, step) ==
    IF Missing(step, {"source_file_pattern", "target_path"})
    THEN Raise(fs, "KeyError")
    ELSE LET target_dir == join(build_dir, strip(step.target_path))
             made == makedirs(fs, Norm(target_dir))
         IN  IF ~made.ok THEN made
             ELSE IF ~IsZip(file) THEN Raise(made.fs, "BadZipFile")
             ELSE LET k == FirstFrom(file.members, 1,
                                     step.source_file_pattern, TRUE)
                  IN  IF k = 0 THEN made
                      ELSE write(made.fs,
                                 Norm(join(target_dir,
                                           basename(file.members[k].filename))),
                                 file.members[k].data)

\* The scan stops at the first entry whose basename matches, folder or not.
find_and_rename(fs, file, step) ==
    IF Missing(step, {"source_file_pattern", "target_filename", "target_path"})
    THEN Raise(fs, "KeyError")
    ELSE LET target_dir == join(build_dir, strip(step.target_path))
             made == makedirs(fs, Norm(target_dir))
             target_path == join(target_dir, step.target_filename)
         IN  IF ~made.ok THEN made
             ELSE IF ~IsZip(file) THEN Raise(made.fs, "BadZipFile")
             ELSE LET k == FirstFrom(file.members, 1,
                                     step.source_file_pattern, FALSE)
                  IN  IF k = 0 THEN made
                      ELSE write(made.fs, Norm(target_path),
                                 file.members[k].data)

\* The pattern delete_file hands to glob.
path_pattern(step) ==
    join(build_dir, strip(Get(step, "target_path", Get(step, "path", ""))))

\* Every path the glob returns is removed, a folder with all it contains.
delete_file(fs, step) ==
    LET items_to_delete == glob(fs, path_pattern(step))
    IN  Done([q \in {x \in DOMAIN fs :
                        \A item \in items_to_delete : ~Within(x, item)} |->
                 fs[q]])

\* One pass of the loop body: the branch of the step's action, inside try
\* (a step without an action, like an unknown action, takes no branch).
RunAction(fs, file, step) ==
    LET action == Get(step, "action", "")
    IN  IF action = "unzip_to_root" THEN unzip_to_root(fs, file)
        ELSE IF action = "copy_file" THEN copy_file(fs, file, step)
        ELSE IF action = "unzip_folder" THEN unzip_folder(fs, file, step)
        ELSE IF action = "find_and_copy" THEN find_and_copy(fs, file, step)
        ELSE IF action = "find_and_rename" THEN find_and_rename(fs, file, step)
        ELSE IF action = "delete_file" THEN delete_file(fs, step)
        ELSE Done(fs)

(* The inputs of process_component: downloaded files, manifests' steps and  *)
(* the build folder as the skeleton left it.                               *)

MaxSteps == 2       \* the first component has at most this many steps

\* A release archive (its first entry is a folder) and a bare binary.
ZipPack ==
    [name |-> "a_pack.zip", data |-> "PK",
     members |-> <<[filename |-> "sub/", data |-> ""],
                   [filename |-> "sub/a.nro", data |-> "A"],
                   [filename |-> "b.nro", data |-> "B"],
                   [filename |-> "x.tmp", data |-> "T"]>>]

Binary == [name |-> "a_tool.nro", data |-> "N"]

Downloads == {ZipPack, Binary}

Steps ==
    {[action |-> "unzip_to_root"],
     [action |-> "copy_file", target_path |-> "/switch/p.bin"],
     [action |-> "unzip_folder", target_path |-> "switch"],
     [action |-> "find_and_copy", source_file_pattern |-> "*.nro",
      target_path |-> "switch"],
     [action |-> "find_and_copy", source_file_pattern |-> "*",
      target_path |-> "/"],
     [action |-> "find_and_copy", source_file_pattern |-> "*.nro"],
     [action |-> "find_and_rename", source_file_pattern |-> "*.nro",
      target_filename |-> "boot.dat", target_path |-> "switch"],
     [action |-> "find_and_rename", source_file_pattern |-> "*",
      target_filename |-> "pick.dat", target_path |-> "/"],
     [action |-> "find_and_rename", source_file_pattern |-> "b*",
      target_filename |-> "/base/boot.dat", target_path |-> "switch"],
     [action |-> "copy_file", target_path |-> "../p.bin"],
     [action |-> "delete_file", target_path |-> "*.tmp"],
     [action |-> "delete_file", path |-> "../keep.txt"],
     [action |-> "delete_file"],
     [action |-> "chmod"]}

StepLists == UNION {[1..n -> Steps] : n \in 0..MaxSteps}

\* The components that come after the first one.
Followers ==
    {[name |-> "Beta"],
     [name |-> "Beta",
      processing_steps |-> <<[action |-> "find_and_copy",
                              source_file_pattern |-> "b*",
                              target_path |-> "switch"]>>],
     [name |-> "Beta",
      processing_steps |-> <<[action |-> "delete_file",
                              target_path |-> "switch"],
                             [action |-> "unzip_to_root"]>>]}

\* The base path with the build folder holding the skeleton, and the same
\* with a file where the skeleton's switch folder would be.
Skeleton ==
    [p \in {<<>>, <<"base">>, <<"base", "build">>,
            <<"base", "build", "switch">>,
            <<"base", "build", "old.tmp">>} |-> Dir]
    @@ (<<"base", "keep.txt">> :> File("K"))
    @@ (<<"base", "build", "boot.tmp">> :> File("O"))
    @@ (<<"base", "build", "old.tmp", "keep.ini">> :> File("I"))

Disks ==
    {Skeleton,
     [p \in DOMAIN Skeleton |->
         IF p = <<"base", "build", "switch">> THEN File("S") ELSE Skeleton[p]]}

InitSteps ==
    /\ now = 0
    /\ clear_cache = FALSE
    /\ github_pat = ""
    /\ cache = EmptyDict
    /\ call = [pc |-> "idle"]
    /\ start = [cache |-> EmptyDict, time |-> 0]
    /\ requests = 0
    /\ ncalls = 0
    /\ last = [component |-> EmptyDict]
    /\ IdentityIdle
    /\ BuilderIdle
    /\ disk \in Disks
    /\ todo \in {<<[component |-> [name |-> "Alpha", processing_steps |-> steps],
                    downloaded_file_path |-> file],
                   [component |-> follower, downloaded_file_path |-> ZipPack]>> :
                     steps \in StepLists, file \in Downloads,
                     follower \in Followers}
    /\ turn = 1
    /\ pos = 1
    /\ log = <<>>
    /\ download = [pc |-> "idle"]
    /\ keys = [pc |-> "idle"]

\* component.get('processing_steps', []).
StepsOf(component) == Get(component, "processing_steps", <<>>)

\* The loop over the steps runs the whole body inside one try.
RunStep_TryAroundLoop ==
    /\ turn <= Len(todo)
    /\ pos <= Len(StepsOf(todo[turn].component))
    /\ LET step == StepsOf(todo[turn].component)[pos]
           r == RunAction(disk, todo[turn].downloaded_file_path, step)
       IN  /\ disk' = r.fs
           /\ log' = Append(log, [component |-> turn, step |-> pos,
                                  error |-> r.error])
           /\ pos' = IF r.ok THEN pos + 1
                     ELSE Len(StepsOf(todo[turn].component)) + 1
    /\ UNCHANGED <<todo, turn, download, keys>>
    /\ UNCHANGED <<resolverVars, identityVars, builderVars>>

\* One pass of the loop over the steps: the step's action is taken, an
\* exception is caught and logged, and the loop goes on to the next step.
RunStep ==
    /\ turn <= Len(todo)
    /\ pos <= Len(StepsOf(todo[turn].component))
    /\ LET step == StepsOf(todo[turn].component)[pos]
           r == RunAction(disk, todo[turn].downloaded_file_path, step)
       IN  /\ disk' = r.fs
           /\ log' = Append(log, [component |-> turn, step |-> pos,
                                  error |-> r.error])
    /\ pos' = pos + 1
    /\ UNCHANGED <<todo, turn, download, keys>>
    /\ UNCHANGED <<resolverVars, identityVars, builderVars>>

\* The loop is over: process_component returns and the build loop calls it
\* for the next component.
NextComponent ==
    /\ turn <= Len(todo)
    /\ pos > Len(StepsOf(todo[turn].component))
    /\ turn' = turn + 1
    /\ pos' = 1
    /\ UNCHANGED <<disk, todo, log, download, keys>>
    /\ UNCHANGED <<resolverVars, identityVars, builderVars>>

NextSteps ==
    \/ RunStep
    \/ NextComponent

SpecSteps == InitSteps /\ [][NextSteps]_vars

----------------------------------------------------------------------------
(* download_file on its own: any URL, any token, any answer.               *)

Urls ==
    {"https://github.com/o/r/releases/download/v1/a.z",
     "https://api.github.com/repos/o/r/releases/assets/1",
     "http://github.com/o/r/a.z",
     "https://objects.githubusercontent.com/a.z",
     "https://example.com/d.z",
     "https://example.com/github.com/d.z",
     "https://example.com/d.z?ref=github.com",
     "https://github.com.example.org/d.z",
     "https://notgithub.com/d.z",
     "https://gitlab.com/o/r/a.z",
     "https://raw.githubusercontent.com/o/r/main/a.z",
     "https://codeload.github.com/o/r/zip/v1"}

Tokens == {"", "ghp_1", "ghp_2"}

InitDownload ==
    /\ now = 0
    /\ clear_cache = FALSE
    /\ github_pat = ""
    /\ cache = EmptyDict
    /\ call = [pc |-> "idle"]
    /\ start = [cache |-> EmptyDict, time |-> 0]
    /\ requests = 0
    /\ ncalls = 0
    /\ last = [component |-> EmptyDict]
    /\ IdentityIdle
    /\ BuilderIdle
    /\ disk = EmptyDict
    /\ todo = <<>>
    /\ turn = 1
    /\ pos = 1
    /\ log = <<>>
    /\ download \in {[pc |-> "called", url |-> url, token |-> token] :
                        url \in Urls, token \in Tokens}
    /\ keys = [pc |-> "idle"]

\* The call runs: the request goes out and the answer decides the result.
Fetch(response) ==
    /\ download.pc = "called"
    /\ download' = [pc |-> "returned", url |-> download.url,
                    token |-> download.token,
                    result |-> download_file(download.url, download.token,
                                             response)]
    /\ UNCHANGED <<disk, todo, turn, pos, log, keys>>
    /\ UNCHANGED <<resolverVars, identityVars, builderVars>>

NextDownload == \E response \in DownloadResponses : Fetch(response)

SpecDownload == InitDownload /\ [][NextDownload]_vars

----------------------------------------------------------------------------
(* The resolver on a cache file whose entries lack or garble fields.       *)

\* A cache entry as the resolver writes it, at tick 0.
GoodEntry ==
    AssetInfo(RelTwo.assets[1], RelTwo, [headers |-> ("ETag" :> "e1")], 0)

\* Cache files that parse as JSON: absent, well formed, an entry whose
\* timestamp is no ISO date, an entry without a timestamp, one without etag.
PersistedCaches ==
    {<<>>,
     <<(CacheKey(CompLatest) :> GoodEntry)>>,
     <<(CacheKey(CompLatest) :>
           [GoodEntry EXCEPT !.timestamp = [text |-> "yesterday"]])>>,
     <<(CacheKey(CompLatest) :>
           [k \in DOMAIN GoodEntry \ {"timestamp"} |-> GoodEntry[k]])>>,
     <<(CacheKey(CompPinned) :>
           [k \in DOMAIN GoodEntry \ {"etag"} |-> GoodEntry[k]])>>}

InitLoad ==
    /\ now = 0
    /\ clear_cache \in BOOLEAN
    /\ github_pat \in {"", "ghp_1"}
    /\ cache \in {load_cache(file) : file \in PersistedCaches}
    /\ call = Idle
    /\ start = [cache |-> cache, time |-> 0]
    /\ requests = 0
    /\ ncalls = 0
    /\ last = NoCall
    /\ IdentityIdle
    /\ BuilderIdle
    /\ StepsIdle

SpecLoad == InitLoad /\ [][NextResolver]_vars

----------------------------------------------------------------------------
(* The cache key on its own: any two descriptors.                          *)

\* Descriptors over two repositories, two patterns, and a release that is
\* not pinned, pinned to the tag "latest", or pinned to v1.
KeyDescriptors ==
    {[name |-> "Alpha", source_type |-> "github_release", repo |-> repo,
      asset_pattern |-> asset_pattern] :
        repo \in {"o/r", "o/s"}, asset_pattern \in {"*.z", "*.t"}}
    \cup {[name |-> "Alpha", source_type |-> "github_release", repo |-> repo,
           asset_pattern |-> asset_pattern, tag |-> tag] :
             repo \in {"o/r", "o/s"}, asset_pattern \in {"*.z", "*.t"},
             tag \in {"latest", "v1"}}

InitKeys ==
    /\ now = 0
    /\ clear_cache = FALSE
    /\ github_pat = ""
    /\ cache = EmptyDict
    /\ call = [pc |-> "idle"]
    /\ start = [cache |-> EmptyDict, time |-> 0]
    /\ requests = 0
    /\ ncalls = 0
    /\ last = [component |-> EmptyDict]
    /\ IdentityIdle
    /\ BuilderIdle
    /\ disk = EmptyDict
    /\ todo = <<>>
    /\ turn = 1
    /\ pos = 1
    /\ log = <<>>
    /\ download = [pc |-> "idle"]
    /\ keys \in {[pc |-> "given", one |-> one, other |-> other] :
                    one \in KeyDescriptors, other \in KeyDescriptors}

\* get_release_asset_info computes the cache key of each descriptor.
ComputeKeys ==
    /\ keys.pc = "given"
    /\ keys' = [pc |-> "computed", one |-> keys.one, other |-> keys.other,
                key_one |-> CacheKey(keys.one),
                key_other |-> CacheKey(keys.other)]
    /\ UNCHANGED <<disk, todo, turn, pos, log, download>>
    /\ UNCHANGED <<resolverVars, identityVars, builderVars>>

NextKeys == ComputeKeys

SpecKeys == InitKeys /\ [][NextKeys]_vars

----------------------------------------------------------------------------
(* Claims about the resolver, stated on the call that is under way or has  *)
(* just returned: start holds the cache and the clock of its beginning,    *)
(* last the call before it.                                                *)

\* The key of the call under way.
TheKey == CacheKey(call.component)

\* The call under way began with an entry under its key.
HadEntry == call.pc # "idle" /\ TheKey \in DOMAIN start.cache

\* That entry was younger than the cache duration when the call began.
WasFresh ==
    /\ HadEntry
    /\ start.time - start.cache[TheKey].timestamp.instant < CACHE_DURATION

\* That entry was at least as old as the cache duration when the call began.
WasExpired ==
    /\ HadEntry
    /\ start.time - start.cache[TheKey].timestamp.instant >= CACHE_DURATION

\* The call under way has returned after a response of this status.
AnsweredWith(status) ==
    /\ call.pc = "done"
    /\ "response" \in DOMAIN call
    /\ "status" \in DOMAIN call.response
    /\ call.response.status = status

\* The release a 200 answered with, as a sequence of at most one release.
AnsweredRelease ==
    IF Get(call.component, "tag", "") # "" THEN <<call.response.json>>
    ELSE IF call.response.json = <<>> THEN <<>>
    ELSE <<call.response.json[1]>>

\* The positions of the answered release's assets that match the pattern.
Matching ==
    IF AnsweredRelease = <<>> THEN {}
    ELSE LET assets == Get(AnsweredRelease[1], "assets", <<>>)
         IN  {i \in 1..Len(assets) :
                  fnmatch(assets[i].name, call.component.asset_pattern)}

\* C1 as stated: two consecutive resolve calls of one descriptor, the
\* second less than the cache duration after the first and neither forced,
\* issue exactly one request between them and return the same value.
C1_ExactlyOneRequest ==
    (/\ call.pc = "done"
     /\ last.component = call.component
     /\ ~clear_cache
     /\ start.time - last.time < CACHE_DURATION)
    => (last.requests + requests = 1 /\ call.ret = last.ret)

\* C1, amended: when the first of two consecutive resolve calls of one
\* descriptor issued a single request and stored the entry built from its
\* 200, a second call less than the cache duration later, not forced,
\* issues no request (one in total) and returns the same AssetInfo.
C1_SecondCallFromCache ==
    (/\ call.pc # "idle"
     /\ last.component = call.component
     /\ last.outcome = "stored"
     /\ last.requests = 1
     /\ ~clear_cache
     /\ start.time - last.time < CACHE_DURATION)
    => (/\ call.pc = "done"
        /\ last.requests + requests = 1
        /\ call.ret = last.ret
        /\ cache = start.cache)

C1_Witness ==
    /\ call.pc = "done"
    /\ last.component = call.component
    /\ last.outcome = "stored"
    /\ last.requests = 1
    /\ ~clear_cache
    /\ start.time > last.time
    /\ start.time - last.time < CACHE_DURATION
    /\ requests = 0
    /\ call.ret = last.ret

\* C2: a call that finds an entry under its key younger than the cache
\* duration, and is not forced, returns that entry, issues no request and
\* leaves the cache as it was.
C2_FreshEntryReturned ==
    (WasFresh /\ ~clear_cache)
    => (/\ call.pc = "done"
        /\ call.ret = start.cache[TheKey]
        /\ requests = 0
        /\ cache = start.cache)

C2_Witness ==
    /\ WasFresh
    /\ ~clear_cache
    /\ call.pc = "done"
    /\ start.time > start.cache[TheKey].timestamp.instant
    /\ call.ret = start.cache[TheKey]

\* C3: a call that finds an expired entry under its key sends every request
\* with the entry's ETag as If-None-Match, and when it is answered 304 it
\* returns the entry and the cache is as it was.
C3_Revalidation ==
    WasExpired
    => (/\ "request" \in DOMAIN call
        /\ "If-None-Match" \in DOMAIN call.request.headers
        /\ call.request.headers["If-None-Match"] = start.cache[TheKey].etag
        /\ AnsweredWith(304) => (call.ret = start.cache[TheKey] /\ cache = start.cache))

C3_Witness ==
    /\ WasExpired
    /\ AnsweredWith(304)
    /\ call.ret = start.cache[TheKey]
    /\ call.ret.etag = "e1"

\* C4 as stated: a call that finds an expired entry and is answered 200
\* leaves under its key the AssetInfo built from that response, not the
\* old entry.
C4_OverwrittenOn200 ==
    (WasExpired /\ AnsweredWith(200))
    => (/\ cache[TheKey] # start.cache[TheKey]
        /\ cache[TheKey].timestamp = isoformat(call.current_time)
        /\ cache[TheKey].etag = Get(call.response.headers, "ETag", ""))

\* C4, amended: a call that finds an expired entry and is answered 200 with
\* a release that has an asset matching the pattern leaves under its key
\* the AssetInfo built from that response (its asset's URL, the release's
\* tag, the time of the call, the response's ETag), not the old entry, and
\* returns it; every other entry of the cache is as it was.
C4_OverwrittenOnMatch ==
    (WasExpired /\ AnsweredWith(200) /\ Matching # {})
    => (/\ cache[TheKey] # start.cache[TheKey]
        /\ cache[TheKey].url \in
               {AnsweredRelease[1].assets[i].browser_download_url : i \in Matching}
        /\ cache[TheKey].version = Get(AnsweredRelease[1], "tag_name", "N/A")
        /\ cache[TheKey].timestamp = isoformat(call.current_time)
        /\ cache[TheKey].etag = Get(call.response.headers, "ETag", "")
        /\ call.ret = cache[TheKey]
        /\ \A k \in DOMAIN start.cache :
               k # TheKey => (k \in DOMAIN cache /\ cache[k] = start.cache[k]))

C4_Witness ==
    /\ WasExpired
    /\ AnsweredWith(200)
    /\ Matching # {}
    /\ cache[TheKey] # start.cache[TheKey]
    /\ cache[TheKey].version # start.cache[TheKey].version

\* C5 as stated: after a rate-limited response the resolver retries once,
\* so one resolve call issues at most two requests.
C5_RetriesOnce == requests <= 1 + 1

\* C7: the AssetInfo a 200 is turned into is built from the first asset, in
\* the order of the response, whose name matches the pattern.
C7_FirstMatchWins ==
    (AnsweredWith(200) /\ Matching # {})
    => (\E i \in Matching :
            /\ \A j \in Matching : i <= j
            /\ call.ret # None
            /\ call.ret.url = AnsweredRelease[1].assets[i].browser_download_url)

C7_Witness ==
    /\ AnsweredWith(200)
    /\ Cardinality(Matching) = 2
    /\ call.ret.url = "https://github.com/o/r/v1/b.z"

----------------------------------------------------------------------------
(* Claims about the build identity. *)

\* A selection as the set of its (id, version) pairs.
Pairs(items) == {<<items[i].id, VersionOf(items[i].comp)>> : i \in 1..Len(items)}

\* C8 as stated: two selections that differ in membership or in the
\* version of an id have different content hashes (as far as the hashed
\* bytes decide it: the digest is taken to separate different inputs).
C8_HashSeparates ==
    (stage = "hashed" /\ Pairs(user_choices) # Pairs(other_choices))
    => content_hash # other_hash

\* C9: the content hash is the same for every iteration order of one
\* selection: it depends on the set of (id, version) pairs alone.
C9_OrderIndependent ==
    (stage = "hashed" /\ Pairs(user_choices) = Pairs(other_choices))
    => content_hash = other_hash

C9_Witness ==
    /\ stage = "hashed"
    /\ Len(user_choices) = 2
    /\ other_choices = <<user_choices[2], user_choices[1]>>
    /\ content_hash = other_hash

\* The selection as a dict id -> version, and the last build's components.
SelectedVersion == [id \in Keys(user_choices) |->
                       VersionOf(user_choices[Value(user_choices, id)].comp)]

SelectedName == [id \in Keys(user_choices) |->
                    user_choices[Value(user_choices, id)].comp.name]

Recorded == Get(last_build, "components", EmptyDict)

\* The ids the changelog has to report.
AddedIds == DOMAIN SelectedVersion \ DOMAIN Recorded

UpdatedIds == {id \in DOMAIN SelectedVersion \cap DOMAIN Recorded :
                  Recorded[id].version # SelectedVersion[id]}

RemovedIds == DOMAIN Recorded \ DOMAIN SelectedVersion

\* The ids of a set in ascending order.
Ascending(S) ==
    CHOOSE q \in [1..Cardinality(S) -> S] :
        \A i, j \in 1..Cardinality(S) : i < j => StrLess(q[i], q[j])

\* The text of a line after its key.
ChangeText(id) ==
    IF id \in AddedIds THEN ": Newly Added (" \o SelectedVersion[id] \o ")"
    ELSE IF id \in UpdatedIds
    THEN ": Updated from " \o Recorded[id].version \o " to " \o SelectedVersion[id]
    ELSE ": Removed (was " \o Recorded[id].version \o ")"

\* A changelog line without its leading bullet.
Unbullet(line) ==
    IF Len(line) >= 2 /\ SubSeq(line, 1, 2) = "* "
    THEN SubSeq(line, 3, Len(line)) ELSE line

\* C10 as stated: one line per changed id, the added and updated ids first
\* in ascending order, the removed ones after them, each line keyed by the
\* id as in the examples of the specification ("A: Updated from 1.0 to
\* 1.1"); the bullet the code puts before a line is not held against it.
C10_KeyedById ==
    stage = "compared"
    => [i \in 1..Len(changes) |-> Unbullet(changes[i])]
       = [i \in 1..Cardinality(AddedIds \cup UpdatedIds) |->
             LET id == Ascending(AddedIds \cup UpdatedIds)[i]
             IN  id \o ChangeText(id)]
         \o [i \in 1..Cardinality(RemovedIds) |->
                LET id == Ascending(RemovedIds)[i]
                IN  id \o ChangeText(id)]

\* C10, amended: one line per changed id and none for an unchanged one, the
\* added and updated ids first in ascending id order, the removed ones
\* after them in ascending id order; a line is "* <name>: Newly Added (v)",
\* "* <name>: Updated from <old> to <new>" or "* <name>: Removed (was
\* <old>)", where <name> is the component's display name (for a removed id
\* the name the last record holds), not its id.
C10_KeyedByName ==
    stage = "compared"
    => changes
       = [i \in 1..Cardinality(AddedIds \cup UpdatedIds) |->
             LET id == Ascending(AddedIds \cup UpdatedIds)[i]
             IN  "* " \o SelectedName[id] \o ChangeText(id)]
         \o [i \in 1..Cardinality(RemovedIds) |->
                LET id == Ascending(RemovedIds)[i]
                IN  "* " \o Recorded[id].name \o ChangeText(id)]

C10_Witness ==
    /\ stage = "compared"
    /\ Len(user_choices) = 2
    /\ user_choices[1].id = "b"
    /\ AddedIds = {"b"}
    /\ UpdatedIds = {"a"}
    /\ RemovedIds = {"ab"}
    /\ changes = <<"* Alpha: Updated from 1 to 1a", "* Beta: Newly Added (1)",
                   "* ab: Removed (was 1)">>

----------------------------------------------------------------------------
(* Claims about the builder. *)

\* The call under way has ended on a network error, on an HTTP error, or on
\* a 200 whose release has no asset matching the pattern.
FailedResolve ==
    /\ call.pc = "done"
    /\ "response" \in DOMAIN call
    /\ \/ "exception" \in DOMAIN call.response
       \/ /\ "status" \in DOMAIN call.response
          /\ \/ call.response.status >= 400
             \/ call.response.status = 200 /\ Matching = {}

\* The ids of the github_release components of a manifest, in its order.
RECURSIVE GithubIds(_)
GithubIds(items) ==
    IF items = <<>> THEN <<>>
    ELSE (IF Get(Head(items).comp, "source_type", "") = "github_release"
          THEN <<Head(items).id>> ELSE <<>>) \o GithubIds(Tail(items))

\* The ids the pass has had resolved so far, in the order of the calls.
ResolvedIds == [k \in 1..Len(resolved) |-> resolved[k].id]

\* C6: a resolve that ends on a network error or on a release without a
\* matching asset returns None; the component it was made for has no
\* asset_info afterwards and is neither downloaded nor processed by the
\* build, selected or not; and the pass goes on: it has every
\* github_release component of the manifest resolved, in manifest order,
\* whatever the earlier resolves returned.
C6_UnresolvedNeverBuilt ==
    /\ FailedResolve => (call.ret = None /\ Outcome(call) = "none")
    /\ \A k \in 1..Len(resolved) :
           resolved[k].outcome = "none"
           => /\ "asset_info" \notin
                     DOMAIN all_components[Value(all_components, resolved[k].id)].comp
              /\ resolved[k].id \notin downloaded
              /\ resolved[k].id \notin processed
    /\ stage = "pass"
       => ResolvedIds = GithubIds(SubSeq(all_components, 1, index - 1))
    /\ stage # "pass" => ResolvedIds = GithubIds(all_components)

C6_Witness ==
    /\ stage = "returned"
    /\ resolved = <<[id |-> "b", outcome |-> "none"],
                    [id |-> "a", outcome |-> "stored"]>>
    /\ Keys(user_choices) = {"a", "b", "d"}
    /\ downloaded = {"a"}
    /\ processed = {"a"}
    /\ last_build_file = <<BuildInfo(content_hash, timestamp, user_choices)>>

\* The record last_build.json holds, {} when there is none.
PersistedRecord == IF last_build_file = <<>> THEN EmptyDict ELSE last_build_file[1]

\* C11: after a selection the builder stops at the no-updates prompt exactly
\* when the changelog is empty, the selection's content hash is the one of
\* the last record and the file the record names exists; from that prompt
\* run_builder returns without building only on the answer skip, and the
\* answer rebuild leads to the confirmation prompt.
C11_IdenticalReport ==
    [][/\ (stage = "select" /\ stage' # "returned")
          => /\ stage' \in {"identical", "confirm"}
             /\ stage' = "identical"
                <=> /\ changes' = <<>>
                    /\ "content_hash" \in DOMAIN PersistedRecord
                    /\ PersistedRecord.content_hash = compute_content_hash(user_choices')
                    /\ "filename" \in DOMAIN PersistedRecord
                    /\ PersistedRecord.filename \in files
       /\ (stage = "identical" /\ stage' = "returned") => Decide("skip_and_return")
       /\ (stage = "identical" /\ Decide("rebuild_anyway")) => stage' = "confirm"
       /\ (stage = "select" /\ stage' = "returned") => ReturnToMain
      ]_vars

C11_Witness ==
    /\ stage = "identical"
    /\ user_choices # <<>>
    /\ changes = <<>>
    /\ last_build = PersistedRecord
    /\ last_build.content_hash = content_hash
    /\ last_build.filename \in files

\* The record a completed build of the current selection has to leave.
ExpectedRecord ==
    [content_hash |-> compute_content_hash(user_choices),
     filename |-> "HATS-" \o timestamp \o "-"
                      \o compute_content_hash(user_choices) \o ".zip",
     timestamp |-> timestamp,
     components |-> [id \in Keys(user_choices) |->
                        [name |-> SelectedName[id], version |-> SelectedVersion[id]]]]

C13_SkeletonAbort ==
    ended = "skeleton"
    => /\ stage = "returned"
       /\ downloaded = {}
       /\ processed = {}
       /\ files \subseteq {Get(PersistedRecord, "filename", "")}
       /\ last_build_file = (IF last_build = EmptyDict THEN <<>> ELSE <<last_build>>)
       /\ temp_build \in {<<>>, <<{}>>}
       /\ temp_download \in {<<>>, <<{}>>}

C13_Witness ==
    /\ ended = "skeleton"
    /\ \E k \in 1..Len(user_choices) : Buildable(user_choices[k].comp)
    /\ temp_build = <<{}>>
    /\ downloaded = {}

\* The selected ids the build loop has to fetch.
SelectedBuildable ==
    {user_choices[k].id : k \in {n \in 1..Len(user_choices) :
                                     Buildable(user_choices[n].comp)}}

\* C18: a component whose download failed (download_file returned False
\* after a connection error or an HTTP error status) is not processed; the
\* failure does not end the build: the loop goes on, and when run_builder
\* has completed, every selected component with an asset_info has been
\* fetched, those whose download succeeded have been processed, and the
\* output and the record have been written.
C18_FailedDownloadSkipped ==
    /\ failed \cap processed = {}
    /\ failed \subseteq downloaded
    /\ failed # {} => (stage = "build" \/ ended = "complete")
    /\ ended = "complete"
       => /\ downloaded = SelectedBuildable
          /\ processed = downloaded \ failed
          /\ ("HATS-" \o timestamp \o "-" \o content_hash \o ".zip") \in files
          /\ last_build_file = <<ExpectedRecord>>

C18_Witness ==
    /\ ended = "complete"
    /\ Len(user_choices) >= 2
    /\ failed = {user_choices[1].id}
    /\ processed = {user_choices[2].id}

\* C19 as stated: when run_builder has completed, the base path holds the
\* zip named after the base, the date and the selection's content hash, and
\* beside it the summary of the same stem with the extension .txt.
C19_SiblingSummary ==
    ended = "complete"
    => /\ ("HATS-" \o timestamp \o "-" \o compute_content_hash(user_choices)
              \o ".zip") \in files
       /\ ("HATS-" \o timestamp \o "-" \o compute_content_hash(user_choices)
              \o ".txt") \in files

\* C20: once a run has passed the confirmation, nothing an earlier run left
\* is in the build folder or in the download folder: before the first
\* component is handled the build folder holds the skeleton's content and
\* nothing else and the download folder is empty, and during the loop they
\* hold that and what this run's components have put there.
C20_FreshFolders ==
    stage = "build"
    => /\ temp_build = <<{"skeleton"} \cup processed>>
       /\ temp_download = <<processed>>
       /\ index = 1 => (temp_build = <<{"skeleton"}>> /\ temp_download = <<{}>>)

C20_Witness ==
    /\ stage = "build"
    /\ index = 1
    /\ last_build_file = <<>>
    /\ temp_build = <<{"skeleton"}>>
    /\ temp_download = <<{}>>
    /\ user_choices # <<>>

----------------------------------------------------------------------------
(* Claims about the step interpreter. *)

\* The number of steps of the components before the k-th.
RECURSIVE Before(_)
Before(k) ==
    IF k <= 1 THEN 0 ELSE Before(k - 1) + Len(StepsOf(todo[k - 1].component))

\* Every (component, step) pair in manifest order.
RECURSIVE ScheduleFrom(_)
ScheduleFrom(k) ==
    IF k > Len(todo) THEN <<>>
    ELSE [n \in 1..Len(StepsOf(todo[k].component)) |->
             [component |-> k, step |-> n]] \o ScheduleFrom(k + 1)

\* C14: the steps run are, at every moment, exactly the steps that come
\* before the current position in manifest order, each one once, whether or
\* not one of them failed and was logged; so when the last component has
\* been processed every step of every component has run, in order.
C14_StepsInOrder ==
    LET schedule == ScheduleFrom(1)
        ran == [n \in 1..Len(log) |->
                   [component |-> log[n].component, step |-> log[n].step]]
    IN  /\ Len(log) = Before(turn) + pos - 1
        /\ Len(log) <= Len(schedule)
        /\ ran = SubSeq(schedule, 1, Len(log))
        /\ turn > Len(todo) => ran = schedule

\* All is processed; a step of the first component failed and was logged, the
\* step after it ran, and so did the steps of the second component.
C14_Witness ==
    /\ turn > Len(todo)
    /\ \E n \in 1..(Len(log) - 1) :
        /\ log[n].component = 1
        /\ log[n].error # ""
        /\ log[n + 1].component = 1
        /\ log[n + 1].error = ""
    /\ log[Len(log)].component = 2

\* The step the loop is at, and the file it works on.
CurrentStep == StepsOf(todo[turn].component)[pos]

CurrentFile == todo[turn].downloaded_file_path

\* RunStep is taking a step of the given action.
Taking(action) ==
    /\ RunStep
    /\ Get(CurrentStep, "action", "") = action

\* The entries of the current file that are no folders and whose basename
\* matches the current step's pattern.
Candidates ==
    IF IsZip(CurrentFile) /\ ~Missing(CurrentStep, {"source_file_pattern", "target_path"})
    THEN {k \in 1..Len(CurrentFile.members) :
            /\ ~is_dir(CurrentFile.members[k])
            /\ fnmatch(basename(CurrentFile.members[k].filename),
                       CurrentStep.source_file_pattern)}
    ELSE {}

FirstCandidate == CHOOSE k \in Candidates : \A j \in Candidates : k <= j

\* Where the first candidate goes: its basename inside the target folder.
CopyTarget ==
    <<"base", "build">>
    \o Resolve(Split(strip(CurrentStep.target_path)), <<>>)
    \o <<basename(CurrentFile.members[FirstCandidate].filename)>>

\* The files the step from disk to disk' wrote: new ones and changed ones.
Written ==
    {p \in DOMAIN disk' :
        /\ IsFile(disk', p)
        /\ p \notin DOMAIN disk \/ disk[p] # disk'[p]}

\* C15: a find_and_copy step writes at most one file, the first entry of the
\* archive that is not a folder and whose basename matches the pattern, under
\* its basename in the target folder; it removes nothing, and it does write
\* that entry whenever the target folder could be made and the name is free
\* of a folder.
C15_FirstMatchOnly ==
    [][Taking("find_and_copy") =>
        /\ \A p \in DOMAIN disk : p \in DOMAIN disk'
        /\ \A p \in Written :
            /\ Candidates # {}
            /\ p = CopyTarget
            /\ disk'[p] = File(CurrentFile.members[FirstCandidate].data)
        /\ (/\ Candidates # {}
            /\ IsDir(disk', Parent(CopyTarget))
            /\ ~IsDir(disk, CopyTarget))
           => /\ CopyTarget \in DOMAIN disk'
              /\ disk'[CopyTarget] =
                    File(CurrentFile.members[FirstCandidate].data)]_vars

\* The last step run and its log entry.
LastEntry == log[Len(log)]

LastStep == StepsOf(todo[LastEntry.component].component)[LastEntry.step]

\* A find_and_copy step whose pattern matches every entry has run on the
\* archive whose first entry is a folder: a.nro, the first file, was copied
\* and b.nro, which matches as well, was not.
C15_Witness ==
    /\ log # <<>>
    /\ LastStep = [action |-> "find_and_copy", source_file_pattern |-> "*",
                   target_path |-> "/"]
    /\ todo[LastEntry.component].downloaded_file_path = ZipPack
    /\ LastEntry.error = ""
    /\ IsFile(disk, <<"base", "build", "a.nro">>)
    /\ disk[<<"base", "build", "a.nro">>] = File("A")
    /\ <<"base", "build", "b.nro">> \notin DOMAIN disk

\* The pattern of the current delete_file step as the manifest gives it,
\* relative to the build root.
DeletePattern ==
    Split(strip(Get(CurrentStep, "target_path", Get(CurrentStep, "path", ""))))

\* p is a file or folder under the build root whose path, relative to the
\* build root, the pattern matches segment by segment.
MatchesPattern(p) ==
    /\ Len(p) = 2 + Len(DeletePattern)
    /\ SubSeq(p, 1, 2) = <<"base", "build">>
    /\ \A n \in 1..Len(DeletePattern) : fnmatch(p[2 + n], DeletePattern[n])

\* C16: a delete_file step removes only what matches its pattern under the
\* build root, a matching folder going with what it contains; every other
\* file and folder is still there, unchanged, after the step.
C16_OnlyMatchingRemoved ==
    [][Taking("delete_file") =>
        \A p \in DOMAIN disk :
            \/ p \in DOMAIN disk' /\ disk'[p] = disk[p]
            \/ \E n \in 3..Len(p) : MatchesPattern(SubSeq(p, 1, n))]_vars

----------------------------------------------------------------------------
(* Claims about download_file. *)

\* The part of a string before the first of the given characters.
RECURSIVE Upto(_, _)
Upto(str, stops) ==
    IF str = "" \/ Head(str) \in stops THEN ""
    ELSE Head(str) \o Upto(Tail(str), stops)

\* The part of a string after the first occurrence of a separator.
RECURSIVE After(_, _)
After(str, sep) ==
    IF Len(str) < Len(sep) THEN ""
    ELSE IF SubSeq(str, 1, Len(sep)) = sep
    THEN SubSeq(str, Len(sep) + 1, Len(str))
    ELSE After(Tail(str), sep)

\* The host of a URL: what stands between the scheme and the path or query.
Host(url) == Upto(After(url, "://"), {"/", "?", "#", ":"})

EndsWith(str, suffix) ==
    /\ Len(str) >= Len(suffix)
    /\ SubSeq(str, Len(str) - Len(suffix) + 1, Len(str)) = suffix

\* The host is the release API's domain, github.com, or a host inside it.
ApiDomain(host) == host = "github.com" \/ EndsWith(host, ".github.com")

\* C17: a download from a URL whose host is not in the release API's domain
\* carries no Authorization header, whatever its path and query contain.
C17_TokenOnlyToApiHost ==
    (download.pc = "returned" /\ ~ApiDomain(Host(download.url)))
    => "Authorization" \notin DOMAIN download.result.headers

----------------------------------------------------------------------------
(* Claims about malformed persisted state. *)

\* C21: no resolve call ends with an exception that leaves
\* get_release_asset_info: whatever the cache that was loaded holds (an entry
\* without a timestamp, a timestamp that does not parse), the call returns
\* and the pass goes on.
C21_NeverRaises == call.pc # "raised"

\* C22: a find_and_rename step writes what find_and_copy would have copied:
\* the first entry of the archive that is not a folder and whose basename
\* matches the pattern, and nothing when there is no such entry.
C22_SameSearch ==
    [][Taking("find_and_rename") =>
        \A p \in Written :
            /\ Candidates # {}
            /\ disk'[p] = File(CurrentFile.members[FirstCandidate].data)]_vars

\* The build root.
BuildRoot == <<"base", "build">>

\* C24: whatever a copy_file, unzip_folder, find_and_copy or find_and_rename
\* step writes or creates lies inside the build root.
C24_WritesInsideBuildRoot ==
    [][(\E action \in {"copy_file", "unzip_folder", "find_and_copy",
                       "find_and_rename"} : Taking(action)) =>
        \A p \in DOMAIN disk' :
            (p \notin DOMAIN disk \/ disk'[p] # disk[p])
            => Within(p, BuildRoot)]_vars

\* C26: a delete_file step leaves the build root in place, whatever the step
\* holds as its path.
C26_BuildRootKept ==
    [][Taking("delete_file") => IsDir(disk', BuildRoot)]_vars

----------------------------------------------------------------------------
(* More claims about the builder. *)

C25_DirectUrlDownloaded ==
    ended = "complete"
    => \A k \in 1..Len(user_choices) :
          Get(user_choices[k].comp, "source_type", "") = "direct_url"
          => user_choices[k].id \in downloaded

----------------------------------------------------------------------------
(* Claims about the cache key. *)

\* The pinned tag of a descriptor, <<>> when it is not pinned.
Pinned(component) ==
    IF "tag" \in DOMAIN component THEN <<component.tag>> ELSE <<>>

\* C27: two descriptors that differ in repo, in pinned tag (pinned or not
\* included) or in asset pattern have different cache keys.
C27_KeysNeverAlias ==
    (/\ keys.pc = "computed"
     /\ \/ keys.one.repo # keys.other.repo
        \/ Pinned(keys.one) # Pinned(keys.other)
        \/ keys.one.asset_pattern # keys.other.asset_pattern)
    => keys.key_one # keys.key_other

----------------------------------------------------------------------------
(* Claims about the build record. *)

\* The content hash of a record's own components map: the digest of
\* "id:version" over its ids in ascending order.
RECURSIVE RecordInput(_, _)
RecordInput(components, ids) ==
    IF ids = <<>> THEN ""
    ELSE Head(ids) \o ":" \o components[Head(ids)].version
             \o RecordInput(components, Tail(ids))

RecordHash(build) ==
    sha1hex7(RecordInput(build.components, sorted(DOMAIN build.components)))

\* C28: the content hash of a record the builder wrote is the content hash of
\* the record's own components map, and when the changelog against such a
\* record is empty the content hash of the selection is the record's.
C28_RecordHashConsistent ==
    (stage = "compared" /\ last_build # EmptyDict)
    => /\ last_build.content_hash = RecordHash(last_build)
       /\ changes = <<>> => content_hash = last_build.content_hash

\* A selection of two was compared with the record of a build of the same
\* ids and versions, selected in the other order: no changes.
C28_Witness ==
    /\ stage = "compared"
    /\ last_build # EmptyDict
    /\ Len(user_choices) = 2
    /\ StrLess(user_choices[2].id, user_choices[1].id)
    /\ VersionOf(user_choices[1].comp) # VersionOf(user_choices[2].comp)
    /\ changes = <<>>
    /\ content_hash = last_build.content_hash

----------------------------------------------------------------------------
(* More claims about the resolver. *)

\* The step ends a call with the response of the given status.
Answers(status) ==
    /\ call.pc = "request"
    /\ call'.pc = "done"
    /\ "response" \in DOMAIN call'
    /\ "status" \in DOMAIN call'.response
    /\ call'.response.status = status

\* C29: a 304 leaves the cache as it is, timestamp included; an entry
\* changes only when a 200 with a matching asset stores a new one under the
\* key of the call; and a call returns without a request only while the
\* entry under its key is younger than the cache duration. So once an entry
\* has expired every resolve of its key sends a request, until such a 200.
C29_NoRenewalBy304 ==
    [][/\ Answers(304) => cache' = cache
       /\ \A k \in DOMAIN cache :
            /\ k \in DOMAIN cache'
            /\ cache'[k] # cache[k]
               => /\ Answers(200)
                  /\ call'.ret # None
                  /\ k = CacheKey(call.component)
       /\ (call.pc # "done" /\ call'.pc = "done" /\ "response" \notin DOMAIN call')
          => /\ CacheKey(call'.component) \in DOMAIN cache
             /\ call'.current_time
                  - cache[CacheKey(call'.component)].timestamp.instant
                < CACHE_DURATION]_vars

\* An expired entry was revalidated by a 304, and the next resolve of the
\* same key has sent a request again.
C29_Witness ==
    /\ "outcome" \in DOMAIN last
    /\ last.outcome = "not_modified"
    /\ call.pc = "request"
    /\ TheKey = CacheKey(last.component)
    /\ WasExpired
    /\ "If-None-Match" \in DOMAIN call.request.headers

\* The record on disk.
SavedRecord == last_build_file[1]

\* C30: the record of a build that ran to its end lists every selected id
\* with the version it was resolved to, N/A when it was not resolved,
\* whether or not the component was downloaded and processed; the same
\* selection compared with it gives no changelog line and the same hash.
C30_RecordListsSelection ==
    ended = "complete"
    => /\ last_build_file # <<>>
       /\ DOMAIN SavedRecord.components = Keys(user_choices)
       /\ \A k \in 1..Len(user_choices) :
            SavedRecord.components[user_choices[k].id].version
                = VersionOf(user_choices[k].comp)
       /\ Changelog(user_choices, SavedRecord) = <<>>
       /\ compute_content_hash(user_choices) = SavedRecord.content_hash

\* A build of two components ran to its end; the download of one failed and
\* the other was not resolved, and both are in the record.
C30_Witness ==
    /\ ended = "complete"
    /\ Len(user_choices) = 2
    /\ failed # {}
    /\ \E k \in 1..2 :
        /\ user_choices[k].id \notin downloaded
        /\ SavedRecord.components[user_choices[k].id].version = "N/A"
    /\ DOMAIN SavedRecord.components = Keys(user_choices)

====
